---- MODULE Spec2Model ----
(***************************************************************************)
(* Model of the playlist synchronisation engine of beets-ibroadcast        *)
(* (src/src/beetsplug/ibroadcast/playlist_sync.py): the three-way merge of *)
(* track-ID sequences and the sync orchestrator that drives it.            *)
(*                                                                         *)
(* Python indices are 0-based and half-open; the model keeps 0-based       *)
(* positions and adds 1 only when it indexes a TLA+ sequence.              *)
(***************************************************************************)
EXTENDS Integers, Sequences, FiniteSets, TLC

\* ------------------------------------------------------------------ bounds
\* Longest ancestor / local / remote sequence fed to the merge specification.
MaxBaseLen == 3
MaxLocalLen == 3
MaxRemoteLen == 3
\* Track identifiers the merge specification draws its sequences from.
MergeIds == {1, 2, 3}
\* Longest track list the user or another client writes in one edit.
MaxEditLen == 2
\* Edits by the user and by other clients of the remote store, and sync runs.
MaxEdits == 2
MaxRuns == 2
\* Largest playlist ID the remote store hands out.
MaxPid == 2
\* Among the remote mutation calls of a run, the first MaxFailCalls may raise.
MaxFailCalls == 2
MaxNodes == 3
MaxPaths == 2
MaxSegments == 2
MaxRows == 2

\* --------------------------------------------------------------- utilities
Min(a, b) == IF a <= b THEN a ELSE b

MinOf(S) == CHOOSE x \in S : \A y \in S : x <= y

\* Python slice s[lo:hi] with 0 <= lo, hi clipped to len(s).
Slice(s, lo, hi) ==
    IF Min(hi, Len(s)) <= lo THEN << >> ELSE SubSeq(s, lo + 1, Min(hi, Len(s)))

SeqsUpTo(S, n) == UNION { [1..k -> S] : k \in 0..n }

\* ---------------------------------------------- difflib.SequenceMatcher
\* a[i:i+k] == b[j:j+k]
BlockMatches(a, b, i, j, k) ==
    \A d \in 0..(k - 1) : a[i + d + 1] = b[j + d + 1]

\* SequenceMatcher.find_longest_match(alo, ahi, blo, bhi) without junk: the
\* longest block; of those the one starting earliest in a; of those the one
\* starting earliest in b.  <<alo, blo, 0>> when nothing matches.
find_longest_match(a, b, alo, ahi, blo, bhi) ==
    LET cand == { m \in (alo..(ahi - 1)) \X (blo..(bhi - 1)) \X (1..(ahi - alo)) :
                    /\ m[1] + m[3] <= ahi
                    /\ m[2] + m[3] <= bhi
                    /\ BlockMatches(a, b, m[1], m[2], m[3]) }
    IN  IF cand = {} THEN <<alo, blo, 0>>
        ELSE CHOOSE m \in cand :
                \A o \in cand :
                    \/ m[3] > o[3]
                    \/ m[3] = o[3] /\ m[1] < o[1]
                    \/ m[3] = o[3] /\ m[1] = o[1] /\ m[2] <= o[2]

\* SequenceMatcher.get_matching_blocks(): the longest match, then recursively
\* the pieces to its left and to its right.  The result is the set of matched
\* index pairs <<i, j>> (a[i] matched with b[j]); the merge only uses the
\* blocks through these pairs.
RECURSIVE MatchedPairs(_, _, _, _, _, _)
MatchedPairs(a, b, alo, ahi, blo, bhi) ==
    LET m == find_longest_match(a, b, alo, ahi, blo, bhi)
        i == m[1]
        j == m[2]
        k == m[3]
    IN  IF k = 0 THEN {}
        ELSE { <<i + d, j + d>> : d \in 0..(k - 1) }
             \cup (IF alo < i /\ blo < j
                   THEN MatchedPairs(a, b, alo, i, blo, j) ELSE {})
             \cup (IF i + k < ahi /\ j + k < bhi
                   THEN MatchedPairs(a, b, i + k, ahi, j + k, bhi) ELSE {})

get_matching_blocks(a, b) == MatchedPairs(a, b, 0, Len(a), 0, Len(b))

\* ------------------------------------------------------- three-way merge
Clean(ids) == [tag |-> "clean", ids |-> ids, remote |-> << >>]
Conflict(l, r) == [tag |-> "conflict", ids |-> l, remote |-> r]

\* _classify_gap without the branch for both sides making the same change
classify_gap_no_same_change(base_gap, local_gap, remote_gap) ==
    LET local_changed == local_gap # base_gap
        remote_changed == remote_gap # base_gap
        emit(g) == IF g # << >> THEN << [tag |-> "clean", ids |-> g, remote |-> << >>] >>
                   ELSE << >>
    IN  IF ~local_changed /\ ~remote_changed
            THEN [segs |-> emit(base_gap), conflict |-> FALSE]
        ELSE IF local_changed /\ ~remote_changed
            THEN [segs |-> emit(local_gap), conflict |-> FALSE]
        ELSE IF remote_changed /\ ~local_changed
            THEN [segs |-> emit(remote_gap), conflict |-> FALSE]
        ELSE IF base_gap = << >>
            THEN [segs |-> emit(local_gap \o remote_gap), conflict |-> FALSE]
        ELSE [segs |-> << [tag |-> "conflict", ids |-> local_gap,
                           remote |-> remote_gap] >>,
              conflict |-> TRUE]

\* _classify_gap that keeps the base content when only the local side changed
classify_gap_drops_local(base_gap, local_gap, remote_gap) ==
    IF local_gap # base_gap /\ remote_gap = base_gap
    THEN [segs |-> IF base_gap # << >>
                   THEN << [tag |-> "clean", ids |-> base_gap, remote |-> << >>] >>
                   ELSE << >>,
          conflict |-> FALSE]
    ELSE classify_gap_no_same_change(base_gap, local_gap, remote_gap)

\* _classify_gap that keeps the base content when only the remote side changed
classify_gap_drops_remote(base_gap, local_gap, remote_gap) ==
    IF remote_gap # base_gap /\ local_gap = base_gap
    THEN [segs |-> IF base_gap # << >>
                   THEN << [tag |-> "clean", ids |-> base_gap, remote |-> << >>] >>
                   ELSE << >>,
          conflict |-> FALSE]
    ELSE classify_gap_no_same_change(base_gap, local_gap, remote_gap)

\* _classify_gap that resolves every double change in favour of the local side
classify_gap_local_wins(base_gap, local_gap, remote_gap) ==
    IF remote_gap # base_gap /\ local_gap # base_gap /\ base_gap # << >>
    THEN [segs |-> IF local_gap # << >>
                   THEN << [tag |-> "clean", ids |-> local_gap, remote |-> << >>] >>
                   ELSE << >>,
          conflict |-> FALSE]
    ELSE classify_gap_no_same_change(base_gap, local_gap, remote_gap)

\* _classify_gap that puts the remote insertion before the local one
classify_gap_remote_first(base_gap, local_gap, remote_gap) ==
    IF remote_gap # base_gap /\ local_gap # base_gap /\ base_gap = << >>
    THEN [segs |-> << [tag |-> "clean", ids |-> remote_gap \o local_gap,
                       remote |-> << >>] >>,
          conflict |-> FALSE]
    ELSE classify_gap_no_same_change(base_gap, local_gap, remote_gap)

\* _classify_gap that appends a conflict segment without reporting it
classify_gap_unflagged(base_gap, local_gap, remote_gap) ==
    [segs |-> classify_gap_no_same_change(base_gap, local_gap, remote_gap).segs,
     conflict |-> FALSE]

\* _classify_gap: the segments it appends and whether it reports a conflict.
classify_gap(base_gap, local_gap, remote_gap) ==
    LET local_changed == local_gap # base_gap
        remote_changed == remote_gap # base_gap
        emit(g) == IF g # << >> THEN << Clean(g) >> ELSE << >>
    IN  IF ~local_changed /\ ~remote_changed
            THEN [segs |-> emit(base_gap), conflict |-> FALSE]
        ELSE IF local_changed /\ ~remote_changed
            THEN [segs |-> emit(local_gap), conflict |-> FALSE]
        ELSE IF remote_changed /\ ~local_changed
            THEN [segs |-> emit(remote_gap), conflict |-> FALSE]
        ELSE IF local_gap = remote_gap
            THEN [segs |-> emit(local_gap), conflict |-> FALSE]
        ELSE IF base_gap = << >>
            THEN [segs |-> << Clean(local_gap \o remote_gap) >>, conflict |-> FALSE]
        ELSE [segs |-> << Conflict(local_gap, remote_gap) >>, conflict |-> TRUE]

\* the segments left as they were appended, clean neighbours not joined
CoalesceNothing(segs, acc) == acc \o segs

\* Coalesce adjacent clean segments.
RECURSIVE Coalesce(_, _)
Coalesce(segs, acc) ==
    IF segs = << >> THEN acc
    ELSE LET seg == Head(segs)
             n == Len(acc)
         IN  IF seg.tag = "clean" /\ n > 0 /\ acc[n].tag = "clean"
             THEN Coalesce(Tail(segs),
                           [acc EXCEPT ![n] = Clean(acc[n].ids \o seg.ids)])
             ELSE Coalesce(Tail(segs), Append(acc, seg))

\* The loop over sync_indices followed by the trailing gap.
RECURSIVE MergeWalk(_, _, _, _, _, _, _, _, _, _)
MergeWalk(base, local, remote, b2l, b2r, sync, base_pos, local_pos, remote_pos, acc) ==
    IF sync = {}
    THEN LET g == classify_gap(Slice(base, base_pos, Len(base)),
                              Slice(local, local_pos, Len(local)),
                              Slice(remote, remote_pos, Len(remote)))
         IN  [segs |-> acc.segs \o g.segs,
              conflict |-> acc.conflict \/ g.conflict]
    ELSE LET bi == MinOf(sync)
             li == b2l[bi]
             ri == b2r[bi]
             g == classify_gap(Slice(base, base_pos, bi),
                              Slice(local, local_pos, li),
                              Slice(remote, remote_pos, ri))
         IN  MergeWalk(base, local, remote, b2l, b2r, sync \ {bi},
                       bi + 1, li + 1, ri + 1,
                       [segs |-> acc.segs \o g.segs \o << Clean(<< base[bi + 1] >>) >>,
                        conflict |-> acc.conflict \/ g.conflict])

\* PlaylistSyncManager._merge_trackids(base, local, remote)
merge_trackids(base, local, remote) ==
    LET bl_blocks == get_matching_blocks(base, local)
        br_blocks == get_matching_blocks(base, remote)
        bl_anchored == { p[1] : p \in bl_blocks }
        br_anchored == { p[1] : p \in br_blocks }
        sync_indices == bl_anchored \cap br_anchored
        base_to_local == [bi \in bl_anchored |->
                            (CHOOSE p \in bl_blocks : p[1] = bi)[2]]
        base_to_remote == [bi \in br_anchored |->
                            (CHOOSE p \in br_blocks : p[1] = bi)[2]]
        walked == MergeWalk(base, local, remote, base_to_local, base_to_remote,
                            sync_indices, 0, 0, 0,
                            [segs |-> << >>, conflict |-> FALSE])
    IN  [segments |-> Coalesce(walked.segs, << >>),
         has_conflicts |-> walked.conflict]

\* merged = [tid for seg in segments for tid in seg[1]]
RECURSIVE Flatten(_)
Flatten(segs) ==
    IF segs = << >> THEN << >> ELSE Head(segs).ids \o Flatten(Tail(segs))


\* =================================================================== world
\* Playlist files of the playlist directory, in the order sorted() lists them.
\* A playlist file is named by its stem: the file of playlist "A" is A.m3u.
Key(folder, name) == [folder |-> folder, name |-> name]

PlKeys == << Key("", "A"), Key("", "B") >>

NoKey == Key("", "")

\* plpath.stem
Stem(key) == key.name

\* str.lower() on the names that occur
lower(s) ==
    IF s = "A" THEN "a" ELSE IF s = "B" THEN "b" ELSE IF s = "F" THEN "f" ELSE s

\* filters=None, or no positional argument given
NoFilters == {}

\* filter_set = {f.lower() for f in filters}
FilterSet(filters) == { lower(f) : f \in filters }

KeyIndex(key) == CHOOSE i \in 1..Len(PlKeys) : PlKeys[i] = key

\* base directory of relative M3U lines (relative_to = 'library')
LibraryDir == "lib"

TrackPath(dir, name) == [dir |-> dir, name |-> name]

\* Rows of the library's (items.path, ib_trackid) join, in row order.  The
\* value is the text the attribute table holds; '0' stands for not uploaded.
LibraryRows ==
    << [path |-> TrackPath("lib", "t1"), value |-> "1"],
       [path |-> TrackPath("lib", "t2"), value |-> "2"],
       [path |-> TrackPath("lib", "t3"), value |-> "0"] >>

\* a NULL attribute value
Null == "<NULL>"

\* the WHERE clause of the query: value IS NOT NULL AND value != '' AND
\* value != '0'
QuerySelects(value) == value \notin { Null, "", "0" }

\* int(value) on the attribute values that occur; it raises ValueError on a
\* text that is no integer literal
IsInt(value) == value \in { "0", "1", "2", "00" }

int(value) ==
    IF value = "1" THEN 1 ELSE IF value = "2" THEN 2 ELSE 0

\* Track files present on disk (track_path.is_file()).
TrackFiles == { LibraryRows[i].path : i \in 1..Len(LibraryRows) }

\* ------------------------------------------------------------- M3U codec
\* A line of a playlist file: a comment (starts with '#'), or a track path
\* written relative to the base directory or as an absolute path.
CommentLine(text) == [kind |-> "comment", dir |-> "", name |-> text]
RelLine(name) == [kind |-> "rel", dir |-> "", name |-> name]
AbsLine(path) == [kind |-> "abs", dir |-> path.dir, name |-> path.name]

\* track_path.relative_to(base_dir), falling back to the absolute path
PathLine(path, base_dir) ==
    IF path.dir = base_dir THEN RelLine(path.name) ELSE AbsLine(path)

\* line.strip() on the file names that occur: one name ends with a blank
strip(name) == IF name = "t5 " THEN "t5" ELSE name

\* text.startswith('#') on the file names that occur: one name starts with '#'
StartsWithHash(name) == name = "#t4"

\* line.startswith('#'): a comment line, or a relative path line whose text
\* starts with '#' (the text of an absolute path line starts with '/')
IsComment(line) ==
    \/ line.kind = "comment"
    \/ line.kind = "rel" /\ StartsWithHash(strip(line.name))

\* normpath(track_prefix / line), of the stripped line
LinePath(line, track_prefix) ==
    IF line.kind = "abs" THEN TrackPath(line.dir, strip(line.name))
    ELSE TrackPath(track_prefix, strip(line.name))

RECURSIVE parse_m3u(_, _)
parse_m3u(lines, track_prefix) ==
    IF lines = << >> THEN << >>
    ELSE IF IsComment(Head(lines)) THEN parse_m3u(Tail(lines), track_prefix)
    ELSE << LinePath(Head(lines), track_prefix) >> \o parse_m3u(Tail(lines), track_prefix)

write_m3u(track_paths, base_dir) ==
    [i \in 1..Len(track_paths) |-> PathLine(track_paths[i], base_dir)]

\* ------------------------------------------------------ identity resolver
\* Dictionaries are functions on their key set; a later row overwrites.
RECURSIVE RowsToPathDict(_, _, _)
RowsToPathDict(rows, paths, acc) ==
    IF rows = << >> THEN acc
    ELSE LET r == Head(rows)
         IN  IF QuerySelects(r.value) /\ r.path \in paths /\ IsInt(r.value)
             THEN RowsToPathDict(Tail(rows), paths,
                    [p \in DOMAIN acc \cup {r.path} |->
                        IF p = r.path THEN int(r.value) ELSE acc[p]])
             ELSE RowsToPathDict(Tail(rows), paths, acc)

build_path_to_trackid(paths) == RowsToPathDict(LibraryRows, paths, << >>)

RECURSIVE RowsToIdDict(_, _)
RowsToIdDict(rows, acc) ==
    IF rows = << >> THEN acc
    ELSE LET r == Head(rows)
         IN  IF QuerySelects(r.value) /\ IsInt(r.value)
             THEN RowsToIdDict(Tail(rows),
                    [t \in DOMAIN acc \cup {int(r.value)} |->
                        IF t = int(r.value) THEN r.path ELSE acc[t]])
             ELSE RowsToIdDict(Tail(rows), acc)

build_trackid_to_path == RowsToIdDict(LibraryRows, << >>)

\* {v: k for k, v in trackid_to_path.items()}
InvertDict(trackid_to_path) ==
    [p \in { trackid_to_path[t] : t \in DOMAIN trackid_to_path } |->
        CHOOSE t \in DOMAIN trackid_to_path : trackid_to_path[t] = p]

\* _parse_m3u_to_trackids: ok = FALSE stands for the None it returns.
parse_m3u_to_trackids(lines, track_prefix, path_to_trackid) ==
    LET track_paths == parse_m3u(lines, track_prefix)
        good(p) == p \in TrackFiles /\ p \in DOMAIN path_to_trackid
        resolved == SelectSeq(track_paths, good)
    IN  IF track_paths = << >> THEN [ok |-> FALSE, ids |-> << >>]
        ELSE IF Len(resolved) < Len(track_paths) THEN [ok |-> FALSE, ids |-> << >>]
        ELSE [ok |-> TRUE, ids |-> [i \in 1..Len(track_paths) |-> path_to_trackid[track_paths[i]]]]

\* _resolve_trackids_to_paths: (resolved_paths, unresolved_count)
resolve_trackids_to_paths(remote_trackids, trackid_to_path) ==
    LET known(t) == t \in DOMAIN trackid_to_path
        ids == SelectSeq(remote_trackids, known)
    IN  [paths |-> [i \in 1..Len(ids) |-> trackid_to_path[ids[i]]],
         unresolved |-> Len(remote_trackids) - Len(ids)]

\* _write_conflicted_m3u: the lines it writes
UnresolvedLine(tid) == CommentLine("# unresolved track " \o ToString(tid))

\* _path_line that writes the placeholder of an unknown ID without the '#'
path_line_unmarked(tid, trackid_to_path, base_dir) ==
    IF tid \in DOMAIN trackid_to_path
    THEN PathLine(trackid_to_path[tid], base_dir)
    ELSE CommentLine("unresolved track " \o ToString(tid))

ConflictPathLine(tid, trackid_to_path, base_dir) ==
    IF tid \in DOMAIN trackid_to_path
    THEN PathLine(trackid_to_path[tid], base_dir)
    ELSE UnresolvedLine(tid)

RECURSIVE write_conflicted_m3u(_, _, _)
write_conflicted_m3u(segments, trackid_to_path, base_dir) ==
    IF segments = << >> THEN << >>
    ELSE LET seg == Head(segments)
             render(ids) == [i \in 1..Len(ids) |->
                               ConflictPathLine(ids[i], trackid_to_path, base_dir)]
         IN  (IF seg.tag = "clean" THEN render(seg.ids)
              ELSE << CommentLine("#<<<<<<< local") >> \o render(seg.ids)
                   \o << CommentLine("#=======") >> \o render(seg.remote)
                   \o << CommentLine("#>>>>>>> remote") >>)
             \o write_conflicted_m3u(Tail(segments), trackid_to_path, base_dir)


\* ============================================================ sync state
\* The state dictionary {plkey: {'id', 'tracks'}} keeps insertion order: a
\* sequence of entries [key, id, tracks] with at most one entry per key.
HasKey(st, key) == \E i \in 1..Len(st) : st[i].key = key

GetEntry(st, key) == st[CHOOSE i \in 1..Len(st) : st[i].key = key]

\* SetEntry that adds an entry also when the key already has one
SetEntry_appends(st, key, id, tracks) ==
    Append(st, [key |-> key, id |-> id, tracks |-> tracks])

\* state[plkey] = {'id': id, 'tracks': tracks}
SetEntry(st, key, id, tracks) ==
    LET e == [key |-> key, id |-> id, tracks |-> tracks]
    IN  IF HasKey(st, key)
        THEN [i \in 1..Len(st) |-> IF st[i].key = key THEN e ELSE st[i]]
        ELSE Append(st, e)

\* for key in keys_to_remove: del state[key]
DelKeys(st, keys) ==
    LET keep(e) == e.key \notin keys IN SelectSeq(st, keep)

\* ================================================================ a run
\* What a run works on: the local playlist files, the remote playlists
\* (ib.playlists, by playlist ID), the next ID the remote store hands out,
\* the in-memory state dictionary, the number of remote mutation calls made
\* so far, and the log of what the run did.
Ev(op, key, id, tracks) == [op |-> op, key |-> key, id |-> id, tracks |-> tracks]

Logged(w, e) == [w EXCEPT !.log = Append(@, e)]

\* A remote mutation call (createplaylist, settracks, deleteplaylist) raises
\* when its position among the calls of the run is in fail.
Raises(w, fail) == (w.calls + 1) \in fail

Called(w) == [w EXCEPT !.calls = @ + 1]

\* the except branch of a remote call: the error is logged
Failed(w, op, key, id, tracks) == Logged(Called(w), Ev(op, key, id, tracks))

\* ib.settracks(playlistid, trackids) that succeeded
SetTracks(w, key, playlistid, trackids) ==
    [Logged(Called(w), Ev("settracks", key, playlistid, trackids))
        EXCEPT !.pls = [@ EXCEPT ![playlistid].tracks = trackids]]

\* a local playlist file written with the given lines
WriteFile(w, op, key, id, lines, trackids) ==
    [Logged(w, Ev(op, key, id, trackids))
        EXCEPT !.files = [k \in DOMAIN @ \cup {key} |->
                            IF k = key THEN lines ELSE @[k]]]

\* state[key] = {'id': id, 'tracks': tracks}
StateSet(w, key, id, tracks) ==
    [Logged(w, Ev("state_set", key, id, tracks))
        EXCEPT !.st = SetEntry(@, key, id, tracks)]

\* _log.warning of lines 593-601 and 629-637: the playlist and how many of
\* its tracks cannot be resolved to local files
Warned(w, playlistid, unresolved) ==
    IF unresolved > 0
    THEN [w EXCEPT !.warnings = Append(@, [id |-> playlistid, unresolved |-> unresolved])]
    ELSE w

\* ---------------------------------------------------------------- upload
\* _upload_playlist in pretend mode, lines 262-276: the merge it predicts
pretend_merge(w, key, playlistid, m) ==
    IF m.has_conflicts
    THEN Logged(w, Ev("would_conflict", key, playlistid, << >>))
    ELSE Logged(w, Ev("would_merge", key, playlistid, Flatten(m.segments)))

\* _upload_playlist in pretend mode: the report it logs
pretend_upload(w, key, local_trackids) ==
    IF ~HasKey(w.st, key)
    THEN Logged(w, Ev("would_create", key, 0, local_trackids))
    ELSE LET e == GetEntry(w.st, key)
             known == e.id \in DOMAIN w.pls
         IN  IF local_trackids # e.tracks
             THEN IF known /\ w.pls[e.id].tracks # e.tracks
                  THEN IF local_trackids = w.pls[e.id].tracks THEN w
                       ELSE pretend_merge(w, key, e.id,
                                          merge_trackids(e.tracks, local_trackids,
                                                         w.pls[e.id].tracks))
                  ELSE Logged(w, Ev("would_upload", key, e.id, local_trackids))
             ELSE w

\* upload_conflicted without the state update
upload_conflicted_keeps_state(w, key, playlistid, segments, remote_trackids) ==
    WriteFile(w, "write_conflicted_m3u", key, playlistid,
              write_conflicted_m3u(segments, build_trackid_to_path, LibraryDir),
              << >>)

\* _upload_playlist, lines 320-328: the merge reported conflicts
upload_conflicted(w, key, playlistid, segments, remote_trackids) ==
    StateSet(WriteFile(w, "write_conflicted_m3u", key, playlistid,
                       write_conflicted_m3u(segments, build_trackid_to_path,
                                            LibraryDir),
                       << >>),
             key, playlistid, remote_trackids)

\* upload_merged that records the merged list although settracks raised
upload_merged_state_on_failure(w, key, playlistid, merged_trackids, fail) ==
    IF Raises(w, fail)
    THEN StateSet(Failed(w, "settracks_failed", key, playlistid, merged_trackids),
                  key, playlistid, merged_trackids)
    ELSE StateSet(
           WriteFile(SetTracks(w, key, playlistid, merged_trackids),
                     "write_merged_m3u", key, playlistid,
                     write_m3u(resolve_trackids_to_paths(
                                   merged_trackids, build_trackid_to_path).paths,
                               LibraryDir),
                     merged_trackids),
           key, playlistid, merged_trackids)

\* _upload_playlist, lines 330-349: clean merge
upload_merged(w, key, playlistid, merged_trackids, fail) ==
    IF Raises(w, fail)
    THEN Failed(w, "settracks_failed", key, playlistid, merged_trackids)
    ELSE StateSet(
           WriteFile(SetTracks(w, key, playlistid, merged_trackids),
                     "write_merged_m3u", key, playlistid,
                     write_m3u(resolve_trackids_to_paths(
                                   merged_trackids, build_trackid_to_path).paths,
                               LibraryDir),
                     merged_trackids),
           key, playlistid, merged_trackids)

\* upload_local that records the local list without pushing it
upload_local_without_push(w, key, playlistid, local_trackids, local_changes, fail) ==
    StateSet(w, key, playlistid, local_trackids)

\* upload_local that pushes the local list without recording it
upload_local_without_state(w, key, playlistid, local_trackids, local_changes, fail) ==
    IF local_changes
    THEN IF Raises(w, fail)
         THEN Failed(w, "settracks_failed", key, playlistid, local_trackids)
         ELSE SetTracks(w, key, playlistid, local_trackids)
    ELSE StateSet(w, key, playlistid, local_trackids)

\* _upload_playlist, lines 358-372: push the local track list (or nothing when
\* it is unchanged) and update the state
upload_local(w, key, playlistid, local_trackids, local_changes, fail) ==
    IF local_changes
    THEN IF Raises(w, fail)
         THEN Failed(w, "settracks_failed", key, playlistid, local_trackids)
         ELSE StateSet(SetTracks(w, key, playlistid, local_trackids),
                       key, playlistid, local_trackids)
    ELSE StateSet(w, key, playlistid, local_trackids)

\* _upload_playlist, lines 304-372, for a playlist that has a state entry and
\* a remote track list
upload_diverged(w, key, playlistid, m, remote_trackids, fail) ==
    IF m.has_conflicts
    THEN upload_conflicted(w, key, playlistid, m.segments, remote_trackids)
    ELSE upload_merged(w, key, playlistid, Flatten(m.segments), fail)

\* upload_linked that pushes the list both sides converged to
upload_linked_pushes_converged(w, key, playlistid, local_trackids, lastsync_trackids, remote_trackids, fail) ==
    LET local_changes == local_trackids # lastsync_trackids
        remote_changes == remote_trackids # lastsync_trackids
    IN  IF local_changes /\ remote_changes
        THEN IF local_trackids = remote_trackids
             THEN upload_local(w, key, playlistid, local_trackids, TRUE, fail)
             ELSE upload_diverged(w, key, playlistid,
                                  merge_trackids(lastsync_trackids, local_trackids,
                                                 remote_trackids),
                                  remote_trackids, fail)
        ELSE IF remote_changes THEN w
        ELSE upload_local(w, key, playlistid, local_trackids, local_changes, fail)

upload_linked(w, key, playlistid, local_trackids, lastsync_trackids, remote_trackids, fail) ==
    LET local_changes == local_trackids # lastsync_trackids
        remote_changes == remote_trackids # lastsync_trackids
    IN  IF local_changes /\ remote_changes
        THEN IF local_trackids = remote_trackids
             THEN StateSet(w, key, playlistid, local_trackids)
             ELSE upload_diverged(w, key, playlistid,
                                  merge_trackids(lastsync_trackids, local_trackids,
                                                 remote_trackids),
                                  remote_trackids, fail)
        ELSE IF remote_changes THEN w
        ELSE upload_local(w, key, playlistid, local_trackids, local_changes, fail)

\* ib.createplaylist(playlist_name) that succeeded: the store has a new,
\* empty playlist
CreatePlaylist(w, key) ==
    [Logged(Called(w), Ev("createplaylist", key, w.nextid, << >>))
        EXCEPT !.pls = [i \in DOMAIN @ \cup {w.nextid} |->
                          IF i = w.nextid
                          THEN [name |-> Stem(key), type |-> "", tracks |-> << >>]
                          ELSE @[i]],
               !.nextid = @ + 1]

\* upload_new that records the new playlist without pushing the tracks
upload_new_without_push(w, key, local_trackids, fail) ==
    IF Raises(w, fail)
    THEN Failed(w, "createplaylist_failed", key, 0, << >>)
    ELSE upload_local(CreatePlaylist(w, key), key, w.nextid, local_trackids,
                      FALSE, fail)

\* _upload_playlist, lines 293-302 and 304-372, for a playlist without a state
\* entry: lastsync_trackids and remote_trackids are both None, so only the
\* local side counts as changed.
upload_new(w, key, local_trackids, fail) ==
    IF Raises(w, fail)
    THEN Failed(w, "createplaylist_failed", key, 0, << >>)
    ELSE upload_local(CreatePlaylist(w, key), key, w.nextid, local_trackids,
                      TRUE, fail)

upload_playlist(w, key, path_to_trackid, pretend, fail) ==
    LET parsed == parse_m3u_to_trackids(w.files[key], LibraryDir, path_to_trackid)
    IN  IF ~parsed.ok THEN w
        ELSE IF pretend THEN pretend_upload(w, key, parsed.ids)
        ELSE IF HasKey(w.st, key)
        THEN LET e == GetEntry(w.st, key)
             IN  IF e.id \notin DOMAIN w.pls THEN w
                 ELSE upload_linked(w, key, e.id, parsed.ids, e.tracks,
                                    w.pls[e.id].tracks, fail)
        ELSE upload_new(w, key, parsed.ids, fail)

\* _handle_upload_deletions: one state entry at a time; the keys to remove
\* are deleted after the loop.
RECURSIVE handle_upload_deletions(_, _, _, _, _)
handle_upload_deletions(w, i, keys_to_remove, pretend, fail) ==
    IF i > Len(w.st) THEN [w EXCEPT !.st = DelKeys(@, keys_to_remove)]
    ELSE LET e == w.st[i]
             next(w2, rm) == handle_upload_deletions(w2, i + 1, rm, pretend, fail)
         IN  IF e.key \in DOMAIN w.files THEN next(w, keys_to_remove)
             ELSE IF pretend
             THEN next(Logged(w, Ev("would_delete_remote", e.key, e.id, << >>)),
                       keys_to_remove)
             ELSE IF e.id \in DOMAIN w.pls /\ w.pls[e.id].tracks # e.tracks
             THEN next(w, keys_to_remove)
             ELSE IF Raises(w, fail)
             THEN next(Failed(w, "deleteplaylist_failed", e.key, e.id, << >>),
                       keys_to_remove)
             ELSE next([Logged(Called(w), Ev("deleteplaylist", e.key, e.id, << >>))
                          EXCEPT !.pls = [p \in DOMAIN @ \ {e.id} |-> @[p]]],
                       keys_to_remove \cup {e.key})

\* the local playlists found by _discover_local_playlists, sorted
LocalPlaylists(fs, filters) ==
    LET present(k) ==
            /\ k \in DOMAIN fs
            /\ filters # {} => lower(Stem(k)) \in FilterSet(filters)
    IN  SelectSeq(PlKeys, present)

RECURSIVE UploadEach(_, _, _, _, _)
UploadEach(w, local_playlists, path_to_trackid, pretend, fail) ==
    IF local_playlists = << >> THEN w
    ELSE UploadEach(upload_playlist(w, Head(local_playlists), path_to_trackid,
                                    pretend, fail),
                    Tail(local_playlists), path_to_trackid, pretend, fail)

\* _collect_m3u_paths
collect_m3u_paths(fs, local_playlists) ==
    UNION { { parse_m3u(fs[local_playlists[i]], LibraryDir)[j] :
                j \in 1..Len(parse_m3u(fs[local_playlists[i]], LibraryDir)) } :
            i \in 1..Len(local_playlists) }

\* upload_deletions that handles the deletions whether or not they are allowed
upload_deletions_always(up, allow_delete, pretend, fail) ==
    handle_upload_deletions(up, 1, {}, pretend, fail)

\* _upload_playlists, lines 236-238: deletions are handled after the uploads
upload_deletions(up, allow_delete, pretend, fail) ==
    IF allow_delete THEN handle_upload_deletions(up, 1, {}, pretend, fail)
    ELSE up

upload_playlists(w, local_playlists, path_to_trackid, allow_delete, pretend, fail) ==
    upload_deletions(UploadEach(w, local_playlists, path_to_trackid, pretend, fail),
                     allow_delete, pretend, fail)

\* -------------------------------------------------------------- download
\* the local track IDs _download_linked_playlist reads: unresolvable paths
\* are filtered out
LinkedLocalTrackids(lines, trackid_to_path) ==
    LET path_to_trackid == InvertDict(trackid_to_path)
        local_paths == parse_m3u(lines, LibraryDir)
        known(p) == p \in DOMAIN path_to_trackid
        resolved == SelectSeq(local_paths, known)
    IN  [i \in 1..Len(resolved) |-> path_to_trackid[resolved[i]]]

\* _download_linked_playlist, lines 591-612: remote changed, local unchanged
download_remote_only(w, playlistid, statekey, remote_trackids, trackid_to_path, pretend) ==
    LET r == resolve_trackids_to_paths(remote_trackids, trackid_to_path)
    IN  IF r.paths = << >> THEN Warned(w, playlistid, r.unresolved)
        ELSE IF pretend
        THEN Logged(Warned(w, playlistid, r.unresolved),
                    Ev("would_update_local", statekey, playlistid, remote_trackids))
        ELSE StateSet(WriteFile(Warned(w, playlistid, r.unresolved), "write_m3u",
                                statekey, playlistid,
                                write_m3u(r.paths, LibraryDir), remote_trackids),
                      statekey, playlistid, remote_trackids)

\* _download_linked_playlist, lines 545-558: the merge reported conflicts
download_conflicted(w, playlistid, statekey, segments, remote_trackids, trackid_to_path, pretend) ==
    IF pretend
    THEN Logged(w, Ev("would_conflict", statekey, playlistid, << >>))
    ELSE StateSet(
           WriteFile(w, "write_conflicted_m3u", statekey, playlistid,
                     write_conflicted_m3u(segments, trackid_to_path, LibraryDir),
                     << >>),
           statekey, playlistid, remote_trackids)

\* _download_linked_playlist, lines 560-589: clean merge; the local file is
\* written before the merged list is pushed
push_merged(written, playlistid, statekey, merged_trackids, fail) ==
    IF Raises(written, fail)
    THEN Failed(written, "settracks_failed", statekey, playlistid, merged_trackids)
    ELSE StateSet(SetTracks(written, statekey, playlistid, merged_trackids),
                  statekey, playlistid, merged_trackids)

download_merged(w, playlistid, statekey, merged_trackids, trackid_to_path, pretend, fail) ==
    IF pretend
    THEN Logged(w, Ev("would_merge", statekey, playlistid, merged_trackids))
    ELSE push_merged(WriteFile(w, "write_merged_m3u", statekey, playlistid,
                               write_m3u(resolve_trackids_to_paths(
                                             merged_trackids, trackid_to_path).paths,
                                         LibraryDir),
                               merged_trackids),
                     playlistid, statekey, merged_trackids, fail)

\* _download_linked_playlist, lines 541-589: the merge and what follows it
download_diverged(w, playlistid, statekey, m, remote_trackids, trackid_to_path, pretend, fail) ==
    IF m.has_conflicts
    THEN download_conflicted(w, playlistid, statekey, m.segments,
                             remote_trackids, trackid_to_path, pretend)
    ELSE download_merged(w, playlistid, statekey, Flatten(m.segments),
                         trackid_to_path, pretend, fail)

\* _download_linked_playlist, lines 531-589: local and remote both changed
download_both_changed(w, playlistid, statekey, lastsync_trackids, local_trackids, remote_trackids, trackid_to_path, pretend, fail) ==
    IF local_trackids = remote_trackids
    THEN IF pretend THEN w
         ELSE StateSet(w, statekey, playlistid, remote_trackids)
    ELSE download_diverged(w, playlistid, statekey,
                           merge_trackids(lastsync_trackids, local_trackids,
                                          remote_trackids),
                           remote_trackids, trackid_to_path, pretend, fail)

\* ib.playlist(playlistid): the download fetches the playlist's track list
Fetched(w, key, playlistid) == Logged(w, Ev("playlist", key, playlistid, << >>))

\* _download_linked_playlist after the fetch of lines 497-500
download_linked_fetched(w, playlistid, statekey, trackid_to_path, pretend, fail) ==
    LET lastsync_trackids == GetEntry(w.st, statekey).tracks
        remote_trackids == w.pls[playlistid].tracks
        local_trackids == LinkedLocalTrackids(w.files[statekey], trackid_to_path)
    IN  IF remote_trackids = lastsync_trackids THEN w
        ELSE IF statekey \in DOMAIN w.files /\ local_trackids # lastsync_trackids
        THEN download_both_changed(w, playlistid, statekey, lastsync_trackids,
                                   local_trackids, remote_trackids,
                                   trackid_to_path, pretend, fail)
        ELSE download_remote_only(w, playlistid, statekey, remote_trackids,
                                  trackid_to_path, pretend)

download_linked_playlist(w, playlistid, statekey, trackid_to_path, pretend, fail) ==
    download_linked_fetched(Fetched(w, statekey, playlistid), playlistid, statekey,
                            trackid_to_path, pretend, fail)

\* download_new_fetched that writes over a file that exists
download_new_overwrites(w, playlistid, plname, trackid_to_path, folder_name, pretend) ==
    LET remote_trackids == w.pls[playlistid].tracks
        r == resolve_trackids_to_paths(remote_trackids, trackid_to_path)
        plpath == Key(folder_name, plname)
    IN  IF remote_trackids = << >> THEN w
        ELSE IF r.paths = << >> THEN Warned(w, playlistid, r.unresolved)
        ELSE IF pretend
        THEN Logged(Warned(w, playlistid, r.unresolved),
                    Ev("would_download", plpath, playlistid, remote_trackids))
        ELSE StateSet(WriteFile(Warned(w, playlistid, r.unresolved), "write_m3u",
                                plpath, playlistid,
                                write_m3u(r.paths, LibraryDir), remote_trackids),
                      plpath, playlistid, remote_trackids)

\* _download_new_playlist after the fetch of lines 618-621
download_new_fetched(w, playlistid, plname, trackid_to_path, folder_name, pretend) ==
    LET remote_trackids == w.pls[playlistid].tracks
        r == resolve_trackids_to_paths(remote_trackids, trackid_to_path)
        plpath == Key(folder_name, plname)
    IN  IF remote_trackids = << >> THEN w
        ELSE IF r.paths = << >> THEN Warned(w, playlistid, r.unresolved)
        ELSE IF pretend
        THEN Logged(Warned(w, playlistid, r.unresolved),
                    Ev("would_download", plpath, playlistid, remote_trackids))
        ELSE IF plpath \in DOMAIN w.files THEN Warned(w, playlistid, r.unresolved)
        ELSE StateSet(WriteFile(Warned(w, playlistid, r.unresolved), "write_m3u",
                                plpath, playlistid,
                                write_m3u(r.paths, LibraryDir), remote_trackids),
                      plpath, playlistid, remote_trackids)

download_new_playlist(w, playlistid, plname, trackid_to_path, folder_name, pretend) ==
    download_new_fetched(Fetched(w, Key(folder_name, plname), playlistid), playlistid,
                         plname, trackid_to_path, folder_name, pretend)

\* id_to_statekey: the first state key of each remote playlist ID
IdToStatekey(st) ==
    [pid \in { st[i].id : i \in 1..Len(st) } |->
        st[MinOf({ i \in 1..Len(st) : st[i].id = pid })].key]

\* child_to_folder: the name of the last folder that lists the child
ChildToFolder(pls) ==
    LET folders == { f \in DOMAIN pls : pls[f].type = "folder" }
        holds(f, c) == \E i \in 1..Len(pls[f].tracks) : pls[f].tracks[i] = c
        children == { c \in DOMAIN pls : \E f \in folders : holds(f, c) }
    IN  [c \in children |->
            pls[CHOOSE f \in folders :
                    /\ holds(f, c)
                    /\ \A g \in folders : holds(g, c) => g <= f].name]

\* _local_playlist_changed always returns False
local_playlist_changed(lines, entry) == FALSE

RECURSIVE handle_download_deletions(_, _, _, _, _)
handle_download_deletions(w, i, keys_to_remove, remote_ids, pretend) ==
    IF i > Len(w.st) THEN [w EXCEPT !.st = DelKeys(@, keys_to_remove)]
    ELSE LET e == w.st[i]
             next(w2, rm) == handle_download_deletions(w2, i + 1, rm, remote_ids,
                                                       pretend)
         IN  IF e.id \in remote_ids THEN next(w, keys_to_remove)
             ELSE IF e.key \notin DOMAIN w.files
             THEN next(w, keys_to_remove \cup {e.key})
             ELSE IF local_playlist_changed(w.files[e.key], e)
             THEN next(w, keys_to_remove)
             ELSE IF pretend
             THEN next(Logged(w, Ev("would_delete_local", e.key, e.id, << >>)),
                       keys_to_remove)
             ELSE next([Logged(w, Ev("unlink", e.key, e.id, << >>))
                          EXCEPT !.files = [k \in DOMAIN @ \ {e.key} |-> @[k]]],
                       keys_to_remove \cup {e.key})

\* folder_names: the children of the last folder of each lower-cased name
FolderNames(pls) ==
    LET folders == { f \in DOMAIN pls : pls[f].type = "folder" }
    IN  [n \in { lower(pls[f].name) : f \in folders } |->
            LET last == CHOOSE f \in folders :
                            /\ lower(pls[f].name) = n
                            /\ \A g \in folders : lower(pls[g].name) = n => g <= f
            IN  { pls[last].tracks[i] : i \in 1..Len(pls[last].tracks) }]

\* folder_child_ids: the children of the folders a filter names
FolderChildIds(pls, filter_set) ==
    UNION { FolderNames(pls)[n] : n \in DOMAIN FolderNames(pls) \cap filter_set }

\* the name filter of the loop, lines 467-472
Filtered(pldata, playlistid, filter_set, folder_child_ids) ==
    /\ filter_set # {}
    /\ lower(pldata.name) \notin filter_set
    /\ playlistid \notin folder_child_ids

\* the loop over ib.playlists, in the order of their IDs
RECURSIVE DownloadEach(_, _, _, _, _, _, _, _, _)
DownloadEach(w, pids, id_to_statekey, child_to_folder, trackid_to_path, pretend, fail, filter_set, folder_child_ids) ==
    IF pids = {} THEN w
    ELSE LET playlistid == MinOf(pids)
             pldata == w.pls[playlistid]
             rest(w2) == DownloadEach(w2, pids \ {playlistid}, id_to_statekey,
                                      child_to_folder, trackid_to_path, pretend, fail,
                                      filter_set, folder_child_ids)
         IN  IF pldata.type # "" THEN rest(w)
             ELSE IF Filtered(pldata, playlistid, filter_set, folder_child_ids)
             THEN rest(w)
             ELSE IF playlistid \in DOMAIN id_to_statekey
             THEN rest(download_linked_playlist(w, playlistid,
                                                id_to_statekey[playlistid],
                                                trackid_to_path, pretend, fail))
             ELSE rest(download_new_playlist(w, playlistid, pldata.name,
                                             trackid_to_path,
                                             IF playlistid \in DOMAIN child_to_folder
                                             THEN child_to_folder[playlistid] ELSE "",
                                             pretend))

\* _download_playlists, lines 487-489: deletions are handled after the downloads
download_deletions(down, allow_delete, pretend) ==
    IF allow_delete
    THEN handle_download_deletions(down, 1, {}, DOMAIN down.pls, pretend)
    ELSE down

download_playlists(w, trackid_to_path, allow_delete, pretend, fail, filters) ==
    download_deletions(DownloadEach(w, DOMAIN w.pls, IdToStatekey(w.st),
                                    ChildToFolder(w.pls), trackid_to_path,
                                    pretend, fail, FilterSet(filters),
                                    FolderChildIds(w.pls, FilterSet(filters))),
                       allow_delete, pretend)

\* ------------------------------------------------------------ state file
\* A state file: whether it is there, whether its text parses as JSON, and the
\* mapping it holds when it parses.
NoFile == [exists |-> FALSE, valid |-> FALSE, data |-> << >>]

\* json.dump, lines 223-224: the file holds the mapping as JSON text
StateFile(st) == [exists |-> TRUE, valid |-> TRUE, data |-> st]

\* a file whose text json.load rejects: the text of a mapping, cut short
CorruptFile(st) == [exists |-> TRUE, valid |-> FALSE, data |-> st]

\* _get_state_path that removes the legacy file without putting it in place
get_state_path_drops_legacy(sf, configured) ==
    IF configured THEN [path |-> "configured", sf |-> sf, moved |-> FALSE]
    ELSE IF sf.legacy.exists /\ ~sf.default.exists
    THEN [path |-> "default", sf |-> [sf EXCEPT !.legacy = NoFile], moved |-> TRUE]
    ELSE [path |-> "default", sf |-> sf, moved |-> FALSE]

\* _get_state_path: the path it returns and the state files it leaves; the
\* legacy file is moved to the default location when only it exists.
get_state_path(sf, configured) ==
    IF configured THEN [path |-> "configured", sf |-> sf, moved |-> FALSE]
    ELSE IF sf.legacy.exists /\ ~sf.default.exists
    THEN [path |-> "default",
          sf |-> [sf EXCEPT !.default = sf.legacy, !.legacy = NoFile],
          moved |-> TRUE]
    ELSE [path |-> "default", sf |-> sf, moved |-> FALSE]

\* load that takes the text of a file for its mapping without parsing it
load_file_unparsed(file) == IF file.exists THEN file.data ELSE << >>

\* _load_state, lines 208-218: the parsed mapping; the empty mapping when the
\* file is missing or json.load raises
load_file(file) ==
    IF file.exists
    THEN IF file.valid THEN file.data ELSE << >>
    ELSE << >>

load_state(sf, state_path) == load_file(sf[state_path])

save_state(sf, state_path, st) == [sf EXCEPT ![state_path] = StateFile(st)]

\* ------------------------------------------------------------------ sync
Modes == {"upload", "download", "sync"}

\* sync, lines 52-54: the state is loaded from the state path
LoadedWorld(fs, pls, nid, sp) ==
    [files |-> fs, pls |-> pls, nextid |-> nid, calls |-> 0,
     st |-> load_state(sp.sf, sp.path),
     log |-> IF sp.moved THEN << Ev("move_state", NoKey, 0, << >>) >> ELSE << >>,
     warnings |-> << >>]

\* sync, lines 62-71: the upload phase
SyncUpload(w0, mode, allow_delete, pretend, fail, filters) ==
    IF mode \in {"upload", "sync"}
    THEN upload_playlists(w0, LocalPlaylists(w0.files, filters),
             build_path_to_trackid(
                 collect_m3u_paths(w0.files, LocalPlaylists(w0.files, filters))),
             allow_delete, pretend, fail)
    ELSE w0

\* sync, lines 73-79: the download phase
SyncDownload(w1, mode, allow_delete, pretend, fail, filters) ==
    IF mode \in {"download", "sync"}
    THEN download_playlists(w1, build_trackid_to_path, allow_delete, pretend, fail,
                            filters)
    ELSE w1

\* sync, lines 81-83: the state is saved unless the run pretends
SyncSave(w2, sp, pretend) ==
    IF pretend THEN [w |-> w2, sf |-> sp.sf, loaded |-> load_state(sp.sf, sp.path)]
    ELSE [w |-> Logged(w2, Ev("save_state", NoKey, 0, << >>)),
          sf |-> save_state(sp.sf, sp.path, w2.st),
          loaded |-> load_state(sp.sf, sp.path)]

SyncFrom(sp, fs, pls, nid, mode, allow_delete, pretend, fail, filters) ==
    SyncSave(SyncDownload(SyncUpload(LoadedWorld(fs, pls, nid, sp),
                                     mode, allow_delete, pretend, fail, filters),
                          mode, allow_delete, pretend, fail, filters),
             sp, pretend)

\* PlaylistSyncManager.sync: the world it leaves and the log of what it did.
sync(fs, pls, nid, sf, configured, mode, allow_delete, pretend, fail, filters) ==
    SyncFrom(get_state_path(sf, configured), fs, pls, nid, mode, allow_delete,
             pretend, fail, filters)

\* ============================================================= variables
VARIABLES
    files,        \* the local playlist files: key -> lines
    playlists,    \* the remote store: playlist ID -> [name, type, tracks]
    nextid,       \* the next playlist ID the remote store hands out
    statefiles,   \* the state files at the configured, default and legacy paths
    configured,   \* whether the plugin's playlist_state option names a path
    run,          \* the last run, while nothing changed since it ended
    edits,        \* edits made so far
    runs,         \* runs made so far
    mBase, mLocal, mRemote,   \* inputs of the merge
    mOut,         \* its result
    cIn,          \* inputs of a codec or resolver function applied on its own
    cOut,         \* its result
    proc          \* the run in progress, when a run is taken step by step,
                  \* or the upload command in progress

worldVars == << files, playlists, nextid, statefiles, configured, run, edits, runs >>
mergeVars == << mBase, mLocal, mRemote, mOut >>
codecVars == << cIn, cOut >>
vars == << files, playlists, nextid, statefiles, configured, run, edits, runs,
           mBase, mLocal, mRemote, mOut, cIn, cOut, proc >>

NoFiles == [k \in {} |-> << >>]
NoPlaylists == [p \in {} |-> [name |-> "", type |-> "", tracks |-> << >>]]

\* The record of a run: its arguments, its log, the world it started in (local
\* files, remote playlists, next remote ID, state files, the state it loaded),
\* and whether it directly follows a non-pretend run in which no remote call
\* failed (and that run's arguments).
NoPrev == [ok |-> FALSE, mode |-> "", allow_delete |-> FALSE, conflicted |-> {}]

NoRun == [done |-> FALSE, mode |-> "", pretend |-> FALSE, allow_delete |-> FALSE,
          filters |-> NoFilters, log |-> << >>, files |-> NoFiles, pls |-> NoPlaylists, nextid |-> 0,
          sf |-> [configured |-> NoFile, default |-> NoFile, legacy |-> NoFile],
          st |-> << >>, warnings |-> << >>, prev |-> NoPrev]

FailedOps == { "createplaylist_failed", "settracks_failed", "deleteplaylist_failed" }

RemoteCallOps == { "createplaylist", "settracks", "deleteplaylist" } \cup FailedOps

LocalWriteOps == { "write_m3u", "write_merged_m3u", "write_conflicted_m3u", "unlink" }

\* positions of the log entries of the given kinds
Events(log, ops) == { i \in 1..Len(log) : log[i].op \in ops }

NoMerge == [done |-> FALSE, segments |-> << >>, has_conflicts |-> FALSE]

\* The state the current state files hold for the plugin.
CurrentState ==
    load_state(statefiles, IF configured THEN "configured" ELSE "default")

\* ------------------------------------------------------------ the world
\* The user's and other clients' edits: what they may write.
UserKeys == { Key("", "A") }
RemoteNames == { "A", "B" }
LocalTracks == { "t1", "t2" }
RemoteTracks == { 1, 2 }

UserFiles ==
    { [i \in 1..Len(s) |-> RelLine(s[i])] :
        s \in SeqsUpTo(LocalTracks, MaxEditLen) \cup { <<"t3">>, <<"t1", "t3">> } }

\* Playlist "A" takes every short track list, also with the track 3 that has
\* no local file; the second playlist "B" is only ever given the list <<1>>.
RemoteLists(name) ==
    IF name = "A" THEN SeqsUpTo(RemoteTracks, MaxEditLen) \cup { <<3>>, <<1, 3>> }
    ELSE { <<1>> }

\* The track lists of the playlist an earlier run may have left in sync.
SyncedLists == { <<1>>, <<1, 2>> }

\* The worlds a behaviour starts in: nothing synced yet, or playlist "A"
\* uploaded and in sync (what LocalEdit followed by an upload run leaves).
Fresh ==
    [files |-> NoFiles, pls |-> NoPlaylists, nextid |-> 1, st |-> << >>]

Synced(tracks) ==
    [files |-> [k \in { Key("", "A") } |->
                 write_m3u(resolve_trackids_to_paths(tracks, build_trackid_to_path).paths,
                           LibraryDir)],
     pls |-> [p \in {1} |-> [name |-> "A", type |-> "", tracks |-> tracks]],
     nextid |-> 2,
     st |-> << [key |-> Key("", "A"), id |-> 1, tracks |-> tracks] >>]

\* The state file of a world: at the configured path, or, when no path is
\* configured, at the legacy path of an older version.
StateFilesOf(w, conf) ==
    IF conf
    THEN [configured |-> IF w.st = << >> THEN NoFile ELSE StateFile(w.st),
          default |-> NoFile, legacy |-> NoFile]
    ELSE [configured |-> NoFile, default |-> NoFile, legacy |-> StateFile(w.st)]

InitialWorlds ==
    { [w |-> Fresh, conf |-> c] : c \in BOOLEAN }
    \cup { [w |-> Synced(t), conf |-> TRUE] : t \in SyncedLists }

WorldInit ==
    /\ \E i \in InitialWorlds :
         /\ files = i.w.files
         /\ playlists = i.w.pls
         /\ nextid = i.w.nextid
         /\ configured = i.conf
         /\ statefiles = StateFilesOf(i.w, i.conf)
    /\ run = NoRun
    /\ edits = 0
    /\ runs = 0

MergeIdle ==
    /\ mBase = << >>
    /\ mLocal = << >>
    /\ mRemote = << >>
    /\ mOut = NoMerge

NoCall == [op |-> ""]

NoResult == [done |-> FALSE]

CodecIdle ==
    /\ cIn = NoCall
    /\ cOut = NoResult

NoProc == [pc |-> "idle"]

ProcIdle == proc = NoProc

Init == WorldInit /\ MergeIdle /\ CodecIdle /\ ProcIdle

Edited ==
    /\ edits < MaxEdits
    /\ edits' = edits + 1
    /\ run' = NoRun
    /\ UNCHANGED << nextid, statefiles, configured, runs, mBase, mLocal, mRemote, mOut, cIn, cOut, proc >>

\* The user writes a playlist file.
LocalEdit(key, lines) ==
    /\ IF key \in DOMAIN files THEN files[key] # lines ELSE TRUE
    /\ files' = [k \in DOMAIN files \cup {key} |-> IF k = key THEN lines ELSE files[k]]
    /\ UNCHANGED playlists
    /\ Edited

\* The user deletes a playlist file.
LocalDelete(key) ==
    /\ key \in DOMAIN files
    /\ files' = [k \in DOMAIN files \ {key} |-> files[k]]
    /\ UNCHANGED playlists
    /\ Edited

\* Another client creates a remote playlist.
RemoteCreate(name, tracks) ==
    /\ nextid <= MaxPid
    /\ playlists' = [p \in DOMAIN playlists \cup {nextid} |->
                        IF p = nextid
                        THEN [name |-> name, type |-> "", tracks |-> tracks]
                        ELSE playlists[p]]
    /\ edits < MaxEdits
    /\ edits' = edits + 1
    /\ run' = NoRun
    /\ nextid' = nextid + 1
    /\ UNCHANGED << files, statefiles, configured, runs, mBase, mLocal, mRemote, mOut, cIn, cOut, proc >>

\* Another client changes the track list of a remote playlist.
RemoteEdit(pid, tracks) ==
    /\ pid \in DOMAIN playlists
    /\ playlists[pid].tracks # tracks
    /\ playlists' = [playlists EXCEPT ![pid].tracks = tracks]
    /\ UNCHANGED files
    /\ Edited

\* Another client deletes a remote playlist.
RemoteDelete(pid) ==
    /\ pid \in DOMAIN playlists
    /\ playlists' = [p \in DOMAIN playlists \ {pid} |-> playlists[p]]
    /\ UNCHANGED files
    /\ Edited

\* The remote calls that may raise in one run: any of its first MaxFailCalls
\* remote mutation calls.
FailChoices == SUBSET (1..MaxFailCalls)

\* Local playlist files without a state entry: a run creates at most one
\* remote playlist for each.
Unlinked ==
    { k \in DOMAIN files :
        ~HasKey(load_state(get_state_path(statefiles, configured).sf,
                           get_state_path(statefiles, configured).path), k) }

\* the playlists for which a run wrote a conflict-annotated file
ConflictedKeys(log) ==
    { log[i].key : i \in Events(log, { "write_conflicted_m3u" }) }

\* The world and the record a run leaves.
Ran(r, mode, allow_delete, pretend, filters) ==
    /\ files' = r.w.files
    /\ playlists' = r.w.pls
    /\ nextid' = r.w.nextid
    /\ statefiles' = r.sf
    /\ run' = [done |-> TRUE, mode |-> mode, pretend |-> pretend,
               allow_delete |-> allow_delete, filters |-> filters, log |-> r.w.log,
               files |-> files, pls |-> playlists, nextid |-> nextid,
               sf |-> statefiles, st |-> r.loaded, warnings |-> r.w.warnings,
               prev |-> IF run.done /\ ~run.pretend
                           /\ Events(run.log, FailedOps) = {}
                        THEN [ok |-> TRUE, mode |-> run.mode,
                              allow_delete |-> run.allow_delete,
                              conflicted |-> ConflictedKeys(run.log)]
                        ELSE NoPrev]

\* One run of the playlist sync command.
Sync(mode, allow_delete, pretend, fail) ==
    /\ runs < MaxRuns
    /\ nextid + Cardinality(Unlinked) <= MaxPid + 1
    /\ pretend => fail = {}
    /\ Ran(sync(files, playlists, nextid, statefiles, configured,
                mode, allow_delete, pretend, fail, NoFilters),
           mode, allow_delete, pretend, NoFilters)
    /\ runs' = runs + 1
    /\ UNCHANGED << configured, edits, mBase, mLocal, mRemote, mOut, cIn, cOut, proc >>

Next ==
    \/ \E key \in UserKeys : \E lines \in UserFiles : LocalEdit(key, lines)
    \/ \E key \in UserKeys : LocalDelete(key)
    \/ \E name \in RemoteNames : \E tracks \in RemoteLists(name) :
         RemoteCreate(name, tracks)
    \/ \E pid \in DOMAIN playlists : \E tracks \in RemoteLists(playlists[pid].name) :
         RemoteEdit(pid, tracks)
    \/ \E pid \in DOMAIN playlists : RemoteDelete(pid)
    \/ \E mode \in Modes : \E allow_delete \in BOOLEAN : \E pretend \in BOOLEAN :
         \E fail \in FailChoices : Sync(mode, allow_delete, pretend, fail)

Spec == Init /\ [][Next]_vars


\* ==================================================== the merge on its own
\* The merges the test suite and the documentation work through.
MergeExamples ==
    { [base |-> <<1, 2, 3, 4, 5>>, local |-> <<1, 9, 3, 4, 5>>, remote |-> <<1, 2, 3, 4, 8>>],
      [base |-> <<1, 2, 3>>, local |-> <<1, 9, 3>>, remote |-> <<1, 8, 3>>],
      [base |-> <<1, 2, 3>>, local |-> <<1, 3>>, remote |-> <<1, 9, 3>>],
      [base |-> <<1, 2, 3>>, local |-> <<1, 2, 3, 4>>, remote |-> <<1, 2, 3, 5>>],
      [base |-> <<1, 2, 3>>, local |-> <<1, 2, 3, 4>>, remote |-> <<1, 2, 3>>],
      [base |-> <<1, 2, 3>>, local |-> <<1, 2, 3>>, remote |-> <<1, 2, 3, 5>>] }

\* The merge applied to every triple of short track-ID sequences and to the
\* examples.
MergeInputs ==
    { [base |-> b, local |-> l, remote |-> r] :
        b \in SeqsUpTo(MergeIds, MaxBaseLen),
        l \in SeqsUpTo(MergeIds, MaxLocalLen),
        r \in SeqsUpTo(MergeIds, MaxRemoteLen) }
    \cup MergeExamples

MergeInit ==
    /\ files = NoFiles
    /\ playlists = NoPlaylists
    /\ nextid = 1
    /\ configured = TRUE
    /\ statefiles = StateFilesOf(Fresh, TRUE)
    /\ run = NoRun
    /\ edits = 0
    /\ runs = 0
    /\ \E t \in MergeInputs :
         /\ mBase = t.base
         /\ mLocal = t.local
         /\ mRemote = t.remote
    /\ mOut = NoMerge
    /\ CodecIdle
    /\ ProcIdle

Merge ==
    /\ ~mOut.done
    /\ mOut' = [done |-> TRUE,
                segments |-> merge_trackids(mBase, mLocal, mRemote).segments,
                has_conflicts |-> merge_trackids(mBase, mLocal, mRemote).has_conflicts]
    /\ UNCHANGED << files, playlists, nextid, statefiles, configured, run, edits, runs,
                    mBase, mLocal, mRemote, cIn, cOut, proc >>

MergeNext == Merge

SpecMerge == MergeInit /\ [][MergeNext]_vars

AllClean(segments) == \A i \in 1..Len(segments) : segments[i].tag = "clean"

\* ================================================= the download on its own
\* The nodes other clients put into the remote store: ordinary playlists
\* (empty, resolving, partly resolving, not resolving), folders listing child
\* playlist IDs, and a system playlist.
PlaylistNodes ==
    { [name |-> n, type |-> "", tracks |-> t] :
        n \in { "A", "B" }, t \in { << >>, <<1>>, <<1, 3>>, <<3>> } }

FolderNodes ==
    { [name |-> n, type |-> "folder", tracks |-> c] :
        n \in { "F", "f" }, c \in { << >>, <<1>>, <<2>> } }

SystemNodes == { [name |-> "A", type |-> "recently-played", tracks |-> <<1>>] }

RemoteNodes == PlaylistNodes \cup FolderNodes \cup SystemNodes

\* The name filters a download is run with: none, or one name in either case.
FilterChoices == { NoFilters, {"a"}, {"B"}, {"f"}, {"F"} }

\* The local side a download starts from: nothing, a file of the user's that
\* no state entry records (at the top level or in the folder's directory), or
\* playlist "A" linked to remote playlist 1, which changed since the last run.
UserFile == << RelLine("t2") >>

Unrecorded(key) ==
    [files |-> [k \in { key } |-> UserFile], pls |-> NoPlaylists, nextid |-> 1,
     st |-> << >>]

RemoteChanged ==
    [Synced(<<1>>) EXCEPT !.pls = [p \in {1} |->
                                     [name |-> "A", type |-> "", tracks |-> <<1, 2>>]]]

DownloadWorlds ==
    { Fresh, Unrecorded(Key("", "A")), Unrecorded(Key("F", "A")), RemoteChanged }

DownloadInit ==
    /\ \E w \in DownloadWorlds :
         /\ files = w.files
         /\ playlists = w.pls
         /\ nextid = w.nextid
         /\ statefiles = StateFilesOf(w, TRUE)
    /\ configured = TRUE
    /\ run = NoRun
    /\ edits = 0
    /\ runs = 0
    /\ MergeIdle
    /\ CodecIdle
    /\ ProcIdle

\* Another client adds a node to the remote store.
RemoteAdd(node) ==
    /\ ~run.done
    /\ nextid <= MaxNodes
    /\ playlists' = [p \in DOMAIN playlists \cup {nextid} |->
                        IF p = nextid THEN node ELSE playlists[p]]
    /\ nextid' = nextid + 1
    /\ edits' = edits + 1
    /\ UNCHANGED << files, statefiles, configured, run, runs, mBase, mLocal, mRemote, mOut, cIn, cOut, proc >>

\* One download-only run of the playlist sync command, with name filters.
Download(filters, pretend) ==
    /\ ~run.done
    /\ Ran(sync(files, playlists, nextid, statefiles, configured,
                "download", FALSE, pretend, {}, filters),
           "download", FALSE, pretend, filters)
    /\ runs' = runs + 1
    /\ UNCHANGED << configured, edits, mBase, mLocal, mRemote, mOut, cIn, cOut, proc >>

DownloadNext ==
    \/ \E node \in RemoteNodes : RemoteAdd(node)
    \/ \E filters \in FilterChoices : \E pretend \in BOOLEAN : Download(filters, pretend)

SpecDownload == DownloadInit /\ [][DownloadNext]_vars

\* C9 (convergence): when local = remote, the merge reports no conflict and
\* returns only clean segments whose concatenation is that common sequence,
\* whatever the base.
C9_Convergence ==
    (mOut.done /\ mLocal = mRemote) =>
        /\ ~mOut.has_conflicts
        /\ AllClean(mOut.segments)
        /\ Flatten(mOut.segments) = mLocal

\* a merge of two equal, non-empty sequences that differ from a non-empty base
C9_Witness ==
    /\ mOut.done
    /\ mLocal = mRemote
    /\ mLocal # mBase
    /\ mLocal # << >>
    /\ mBase # << >>

Real == run.done /\ ~run.pretend

EntryTracks(st, key) == IF HasKey(st, key) THEN << GetEntry(st, key).tracks >> ELSE << >>

StrictIds(lines) ==
    parse_m3u_to_trackids(lines, LibraryDir,
                          build_path_to_trackid(TrackFiles))

FilteredIds(lines) == LinkedLocalTrackids(lines, build_trackid_to_path)

\* the IDs of a track list that have a local path
ResolvableIds(tracks) ==
    LET known(t) == t \in DOMAIN build_trackid_to_path IN SelectSeq(tracks, known)

\* C1 (idempotence): a non-pretend bidirectional run that directly follows a
\* non-pretend bidirectional run (same arguments, no failed call, nothing
\* edited in between) writes no local file, makes no remote mutation call and
\* leaves the sync state as it found it.
C1_Idempotence ==
    (Real /\ run.mode = "sync" /\ run.prev.ok /\ run.prev.mode = "sync"
          /\ run.prev.allow_delete = run.allow_delete) =>
        /\ Events(run.log, LocalWriteOps \cup RemoteCallOps) = {}
        /\ CurrentState = run.st

C3_DeletionGuard ==
    Real =>
        /\ \A i \in Events(run.log, { "deleteplaylist", "deleteplaylist_failed" }) :
             LET e == run.log[i] IN
             e.id \in DOMAIN run.pls =>
                 << run.pls[e.id].tracks >> = EntryTracks(run.st, e.key)
        /\ \A i \in Events(run.log, { "unlink" }) :
             LET e == run.log[i] IN
             << FilteredIds(run.files[e.key]) >> = EntryTracks(run.st, e.key)

\* C4 (pretend mode): a pretend run leaves the local files, the remote
\* playlists and the state files as they were, and makes no remote call.
C4_PretendWritesNothing ==
    (run.done /\ run.pretend) =>
        /\ files = run.files
        /\ playlists = run.pls
        /\ statefiles = run.sf
        /\ Events(run.log, LocalWriteOps \cup RemoteCallOps
                           \cup { "save_state", "move_state" }) = {}

\* The local sequence a run reads for a linked playlist: the upload phase
\* reads it strictly; the download phase, which handles the playlist when the
\* upload phase skipped it or did not run, filters unresolvable lines out.
ReadLocal(lines) ==
    IF StrictIds(lines).ok THEN StrictIds(lines).ids ELSE FilteredIds(lines)

\* A playlist linked before the run, with a local file and a remote track
\* list, that the run processes.
Linked(key) ==
    /\ key \in DOMAIN run.files
    /\ HasKey(run.st, key)
    /\ GetEntry(run.st, key).id \in DOMAIN run.pls
    /\ run.pls[GetEntry(run.st, key).id].type = ""
    /\ run.mode = "upload" => StrictIds(run.files[key]).ok

\* Local and remote both differ from the ancestor and from each other.
BothChanged(key) ==
    LET e == GetEntry(run.st, key)
        l == ReadLocal(run.files[key])
        r == run.pls[e.id].tracks
    IN  l # e.tracks /\ r # e.tracks /\ l # r

MergeOf(key) ==
    LET e == GetEntry(run.st, key)
    IN  merge_trackids(e.tracks, ReadLocal(run.files[key]), run.pls[e.id].tracks)

C6_CleanMerge ==
    (Real /\ Events(run.log, FailedOps) = {}) =>
        \A key \in DOMAIN run.files :
            (Linked(key) /\ BothChanged(key) /\ ~MergeOf(key).has_conflicts) =>
                LET e == GetEntry(run.st, key)
                    merged == Flatten(MergeOf(key).segments)
                IN  /\ \E i \in Events(run.log, { "settracks" }) :
                          run.log[i].id = e.id /\ run.log[i].tracks = merged
                    /\ playlists[e.id].tracks = merged
                    /\ EntryTracks(CurrentState, key) = << merged >>
                    /\ key \in DOMAIN files
                    /\ StrictIds(files[key]) = [ok |-> merged # << >>, ids |-> merged]


EntryOf(st, key) == IF HasKey(st, key) THEN << GetEntry(st, key) >> ELSE << >>

FileOf(fs, key) == IF key \in DOMAIN fs THEN << fs[key] >> ELSE << >>

\* the keys a run can touch
RunKeys == { PlKeys[i] : i \in 1..Len(PlKeys) }

\* C7 as stated: when a remote call for a playlist fails, the playlist's state
\* entry after the run is the entry before the run, and the run ends by
\* saving the state.
C7_Original ==
    Real =>
        /\ run.log[Len(run.log)].op = "save_state"
        /\ \A i \in Events(run.log, FailedOps) :
             EntryOf(CurrentState, run.log[i].key) = EntryOf(run.st, run.log[i].key)

\* the run of which run is the record, with no failing call
FailureFree ==
    sync(run.files, run.pls, run.nextid, run.sf, configured, run.mode,
         run.allow_delete, FALSE, {}, run.filters)

\* C7 as amended: when a remote call for a playlist fails, the run still ends
\* by saving the state, and the playlists without a failed call end with the
\* file and the state tracks they get when no call fails. In an upload-only or
\* download-only run the playlist's state entry after the run is the entry
\* before the run. In a bidirectional run the download phase still processes
\* the playlist: its entry is then either the entry before the run, or an
\* entry holding the track list the remote playlist has after the run, or
\* removed because the remote playlist no longer exists.
C7_FailureIsolated ==
    Real =>
        /\ run.log[Len(run.log)].op = "save_state"
        /\ statefiles.configured.exists \/ statefiles.default.exists
        /\ \A i \in Events(run.log, FailedOps) :
             LET before == EntryOf(run.st, run.log[i].key)
                 after == EntryOf(CurrentState, run.log[i].key)
             IN  \/ after = before
                 \/ /\ run.mode = "sync"
                    /\ IF after = << >>
                       THEN before[1].id \notin DOMAIN playlists
                       ELSE /\ after[1].id \in DOMAIN playlists
                            /\ playlists[after[1].id].tracks = after[1].tracks
        /\ Events(run.log, FailedOps) # {} =>
             \A key \in RunKeys :
                 (\A i \in Events(run.log, FailedOps) : run.log[i].key # key) =>
                     /\ FileOf(files, key) = FileOf(FailureFree.w.files, key)
                     /\ EntryTracks(CurrentState, key)
                          = EntryTracks(FailureFree.w.st, key)

\* a call failed for one playlist and the run went on to write another one
C7_Witness ==
    /\ Real
    /\ \E i \in Events(run.log, FailedOps) :
         \E j \in Events(run.log, LocalWriteOps \cup { "state_set" }) :
             j > i /\ run.log[j].key # run.log[i].key

\* C8: a playlist with a local line that has no track ID is neither pushed nor
\* merged; a remote playlist with a track ID that has no local path is not
\* written locally.
C8_NoPartial ==
    Real =>
        /\ \A key \in DOMAIN run.files :
             ~StrictIds(run.files[key]).ok =>
                 \A i \in Events(run.log, RemoteCallOps \cup
                                 { "write_merged_m3u", "write_conflicted_m3u" }) :
                     run.log[i].key # key
        /\ \A i \in Events(run.log, { "write_m3u", "write_merged_m3u" }) :
             LET id == run.log[i].id IN
             id \in DOMAIN run.pls =>
                 ResolvableIds(run.pls[id].tracks) = run.pls[id].tracks


\* ------------------------------------------------- the gaps of a merge
\* The sync points of a merge: the base positions matched in both the local
\* and the remote sequence, with the positions they are matched to.
SyncPoints(base, local, remote) ==
    { [b |-> p[1], l |-> p[2], r |-> q[2]] :
        <<p, q>> \in { pq \in get_matching_blocks(base, local)
                               \X get_matching_blocks(base, remote) :
                        pq[1][1] = pq[2][1] } }

\* The gaps of a merge, in order: what base, local and remote hold between one
\* sync point and the next (sync is the track of the sync point that ends the
\* gap, empty for the trailing gap).
RECURSIVE GapsFrom(_, _, _, _, _, _, _)
GapsFrom(base, local, remote, pts, base_pos, local_pos, remote_pos) ==
    IF pts = {}
    THEN << [b |-> Slice(base, base_pos, Len(base)),
             l |-> Slice(local, local_pos, Len(local)),
             r |-> Slice(remote, remote_pos, Len(remote)),
             sync |-> << >>] >>
    ELSE LET p == CHOOSE x \in pts : \A y \in pts : x.b <= y.b
         IN  << [b |-> Slice(base, base_pos, p.b),
                 l |-> Slice(local, local_pos, p.l),
                 r |-> Slice(remote, remote_pos, p.r),
                 sync |-> << base[p.b + 1] >>] >>
             \o GapsFrom(base, local, remote, pts \ {p}, p.b + 1, p.l + 1, p.r + 1)

Gaps(base, local, remote) ==
    GapsFrom(base, local, remote, SyncPoints(base, local, remote), 0, 0, 0)

\* the gaps of the merge the state holds
MGaps == Gaps(mBase, mLocal, mRemote)

\* both sides changed the gap, differently
BothDiffer(g) == g.l # g.b /\ g.r # g.b /\ g.l # g.r

\* What a gap contributes when its changes are applied: the side that changed,
\* and the local content before the remote content when both inserted.
Applied(g) ==
    IF g.l = g.b THEN g.r
    ELSE IF g.r = g.b \/ g.l = g.r THEN g.l
    ELSE g.l \o g.r

RECURSIVE Composed(_)
Composed(gaps) ==
    IF gaps = << >> THEN << >>
    ELSE Applied(Head(gaps)) \o Head(gaps).sync \o Composed(Tail(gaps))

\* C11 (one-sided change): merge(base, x, base) and merge(base, base, x) report
\* no conflict and return only clean segments whose concatenation is x.
C11_OneSided ==
    (mOut.done /\ (mRemote = mBase \/ mLocal = mBase)) =>
        /\ ~mOut.has_conflicts
        /\ AllClean(mOut.segments)
        /\ Flatten(mOut.segments) = IF mRemote = mBase THEN mLocal ELSE mRemote

\* the local side alone deleted a track of the base and moved another
C11_Witness ==
    /\ mOut.done
    /\ mRemote = mBase
    /\ mLocal # mBase
    /\ Len(mLocal) < Len(mBase)
    /\ mLocal # << >>
    /\ Flatten(mOut.segments) = mLocal

\* C12 (disjoint edits compose): when in every gap at most one side differs
\* from the base, the merge reports no conflict and its flattened output is
\* the base with each side's changes applied in place; the documented example
\* gives exactly one clean segment <<1, 9, 3, 4, 8>>.
C12_DisjointCompose ==
    mOut.done =>
        /\ (\A i \in 1..Len(MGaps) : MGaps[i].l = MGaps[i].b \/ MGaps[i].r = MGaps[i].b)
           => /\ ~mOut.has_conflicts
              /\ AllClean(mOut.segments)
              /\ Flatten(mOut.segments) = Composed(MGaps)
        /\ (mBase = <<1, 2, 3, 4, 5>> /\ mLocal = <<1, 9, 3, 4, 5>>
              /\ mRemote = <<1, 2, 3, 4, 8>>)
           => /\ mOut.segments = << Clean(<<1, 9, 3, 4, 8>>) >>
              /\ ~mOut.has_conflicts

\* local changed one gap and remote another one
C12_Witness ==
    /\ mOut.done
    /\ \A i \in 1..Len(MGaps) : MGaps[i].l = MGaps[i].b \/ MGaps[i].r = MGaps[i].b
    /\ \E i, j \in 1..Len(MGaps) :
         /\ i # j
         /\ MGaps[i].l # MGaps[i].b
         /\ MGaps[j].r # MGaps[j].b
    /\ Len(mBase) = 5

\* C13 (conflicting edits are flagged): when in a gap with non-empty base
\* content local and remote both differ from the base and from each other,
\* the merge reports has_conflicts and returns a conflict segment carrying
\* exactly the local and the remote content of that gap.
C13_ConflictFlagged ==
    mOut.done =>
        \A i \in 1..Len(MGaps) :
            (MGaps[i].b # << >> /\ BothDiffer(MGaps[i])) =>
                /\ mOut.has_conflicts
                /\ \E k \in 1..Len(mOut.segments) :
                     mOut.segments[k] = Conflict(MGaps[i].l, MGaps[i].r)

\* both sides replaced the middle track of <<1, 2, 3>>, differently
C13_Witness ==
    /\ mOut.done
    /\ mBase = <<1, 2, 3>> /\ mLocal = <<1, 9, 3>> /\ mRemote = <<1, 8, 3>>
    /\ mOut.has_conflicts
    /\ mOut.segments = << Clean(<<1>>), Conflict(<<9>>, <<8>>), Clean(<<3>>) >>

\* C14 (empty-base concurrent insertion): when no gap is conflicting and in
\* some gap with empty base content local and remote insert different
\* content, the merge reports no conflict and is clean, with the local
\* insertion followed by the remote insertion at that place.
C14_EmptyBaseInsertion ==
    (/\ mOut.done
     /\ \A i \in 1..Len(MGaps) : MGaps[i].b # << >> => ~BothDiffer(MGaps[i])
     /\ \E i \in 1..Len(MGaps) : MGaps[i].b = << >> /\ BothDiffer(MGaps[i])) =>
        /\ ~mOut.has_conflicts
        /\ AllClean(mOut.segments)
        /\ Flatten(mOut.segments) = Composed(MGaps)
        /\ (mBase = << >> /\ mLocal = <<1>> /\ mRemote = <<2>>)
           => mOut.segments = << Clean(<<1, 2>>) >>

\* both sides appended a different track to <<1, 2, 3>>
C14_Witness ==
    /\ mOut.done
    /\ mBase = <<1, 2, 3>> /\ mLocal = <<1, 2, 3, 4>> /\ mRemote = <<1, 2, 3, 5>>
    /\ Flatten(mOut.segments) = <<1, 2, 3, 4, 5>>
    /\ ~mOut.has_conflicts

\* The local file reads, with every line resolving, as the ancestor sequence.
LocalIsAncestor(key) ==
    StrictIds(run.files[key]) = [ok |-> TRUE, ids |-> GetEntry(run.st, key).tracks]

\* C15 (only remote changed): in a non-pretend bidirectional run, when a
\* linked playlist's remote sequence differs from the ancestor and its local
\* sequence equals the ancestor, the run writes the remote sequence to the
\* local file and sets the entry's tracks to it: afterwards local, remote and
\* state all equal the remote sequence, whatever that sequence is (the empty
\* one included).
C15_RemoteOnly ==
    (Real /\ run.mode = "sync") =>
        \A key \in DOMAIN run.files :
            (/\ Linked(key) /\ LocalIsAncestor(key)
             /\ run.pls[GetEntry(run.st, key).id].tracks # GetEntry(run.st, key).tracks) =>
                LET e == GetEntry(run.st, key)
                    r == run.pls[e.id].tracks
                IN  /\ key \in DOMAIN files
                    /\ ReadLocal(files[key]) = r
                    /\ EntryTracks(CurrentState, key) = << r >>
                    /\ playlists[e.id].tracks = r

\* the settracks calls of the run for a playlist, made or failed
PushCalls(id) ==
    { i \in Events(run.log, { "settracks", "settracks_failed" }) : run.log[i].id = id }

\* the local file writes of the run for a key
FileWrites(key) == { i \in Events(run.log, LocalWriteOps) : run.log[i].key = key }

\* what C16 promises for a key whose local sequence is l
PushedLocal(key, l) ==
    LET e == GetEntry(run.st, key) IN
    /\ \E i \in PushCalls(e.id) : run.log[i].tracks = l
    /\ \A i \in PushCalls(e.id) : run.log[i].tracks = l
    /\ (\E i \in PushCalls(e.id) : run.log[i].op = "settracks")
       => /\ EntryTracks(CurrentState, key) = << l >>
          /\ playlists[e.id].tracks = l
    /\ (\A i \in PushCalls(e.id) : run.log[i].op = "settracks_failed")
       => EntryOf(CurrentState, key) = EntryOf(run.st, key)
    /\ FileWrites(key) = {}
    /\ FileOf(files, key) = << run.files[key] >>

\* The local sequence of a file in which no line fails to resolve; such a
\* file may hold no track line at all.
AllResolve(lines) ==
    StrictIds(lines).ok \/ parse_m3u(lines, LibraryDir) = << >>

Converged(key) ==
    LET e == GetEntry(run.st, key)
        l == ReadLocal(run.files[key])
        r == run.pls[e.id].tracks
    IN  l # e.tracks /\ r # e.tracks /\ l = r

\* what C17 promises for a key
StateOnly(key) ==
    LET e == GetEntry(run.st, key) IN
    /\ EntryOf(CurrentState, key) =
           << [key |-> key, id |-> e.id, tracks |-> run.pls[e.id].tracks] >>
    /\ PushCalls(e.id) = {}
    /\ FileWrites(key) = {}
    /\ FileOf(files, key) = << run.files[key] >>
    /\ playlists[e.id].tracks = run.pls[e.id].tracks

CreateCalls(key) ==
    { i \in Events(run.log, { "createplaylist", "createplaylist_failed" }) :
        run.log[i].key = key }

\* a local file the upload takes as a new playlist
NewLocal(key) == ~HasKey(run.st, key) /\ StrictIds(run.files[key]).ok

\* what C18 promises after the createplaylist call at log position i
CreatedAndPushed(key, i, l) ==
    LET n == run.log[i].id IN
    /\ n \notin DOMAIN run.pls
    /\ n \in DOMAIN playlists
    /\ playlists[n].name = Stem(key) /\ playlists[n].type = ""
    /\ \E j \in PushCalls(n) : j > i /\ run.log[j].tracks = l /\ run.log[j].key = key
    /\ Cardinality(PushCalls(n)) = 1
    /\ IF \E j \in PushCalls(n) : run.log[j].op = "settracks"
       THEN /\ playlists[n].tracks = l
            /\ EntryOf(CurrentState, key) = << [key |-> key, id |-> n, tracks |-> l] >>
       ELSE ~HasKey(CurrentState, key)

\* C18 (new local playlist): for a local file with at least one track line,
\* all resolving, and no state entry, a non-pretend upload or bidirectional
\* run calls createplaylist with the file's stem, pushes the local sequence
\* to the new playlist with settracks and records the entry of the new id and
\* the local sequence; the entry is recorded only if both calls succeeded.
C18_NewLocal ==
    (Real /\ run.mode \in { "upload", "sync" }) =>
        \A key \in DOMAIN run.files :
            NewLocal(key) =>
                /\ Cardinality(CreateCalls(key)) = 1
                /\ \A i \in CreateCalls(key) :
                     IF run.log[i].op = "createplaylist"
                     THEN CreatedAndPushed(key, i, StrictIds(run.files[key]).ids)
                     ELSE /\ ~HasKey(CurrentState, key)
                          /\ \A j \in Events(run.log, { "settracks", "settracks_failed" }) :
                               run.log[j].key # key
                /\ FileOf(files, key) = << run.files[key] >>

\* a run created a remote playlist for a new two-track file and recorded it
C18_Witness ==
    /\ Real /\ run.mode \in { "upload", "sync" }
    /\ \E key \in DOMAIN run.files :
         /\ NewLocal(key)
         /\ Len(StrictIds(run.files[key]).ids) = 2
         /\ \E i \in CreateCalls(key) :
              /\ run.log[i].op = "createplaylist"
              /\ EntryOf(CurrentState, key) =
                     << [key |-> key, id |-> run.log[i].id,
                         tracks |-> StrictIds(run.files[key]).ids] >>

\* a run created a remote playlist and the settracks call that followed failed
C18_WitnessFailed ==
    /\ Real /\ run.mode \in { "upload", "sync" }
    /\ \E key \in DOMAIN run.files :
         /\ NewLocal(key)
         /\ \E i \in CreateCalls(key) :
              /\ run.log[i].op = "createplaylist"
              /\ \E j \in PushCalls(run.log[i].id) : run.log[j].op = "settracks_failed"

\* the remote nodes of the run that are ordinary playlists, folders
OrdinaryIds == { p \in DOMAIN run.pls : run.pls[p].type = "" }

FolderIds == { f \in DOMAIN run.pls : run.pls[f].type = "folder" }

\* the folders that list a playlist as a child
FoldersOf(p) ==
    { f \in FolderIds : \E i \in 1..Len(run.pls[f].tracks) : run.pls[f].tracks[i] = p }

\* the playlists the run fetched from the remote store
FetchedIds == { run.log[i].id : i \in Events(run.log, { "playlist" }) }

\* the playlists a state entry linked before the run
LinkedIds == { run.st[i].id : i \in 1..Len(run.st) }

\* where a new remote playlist belongs: in the directory of a folder that
\* lists it, at the top level when no folder does
PlacesOf(p) ==
    IF FoldersOf(p) = {} THEN { Key("", run.pls[p].name) }
    ELSE { Key(run.pls[f].name, run.pls[p].name) : f \in FoldersOf(p) }

\* the log entries of the run about a playlist, the fetch aside
ActsOn(p) == { i \in 1..Len(run.log) : run.log[i].id = p /\ run.log[i].op # "playlist" }

\* the file at the path exists when the run reaches the playlist: it was there
\* before the run, or the run wrote it for an earlier playlist of that name
ExistsBefore(path, p) ==
    \/ path \in DOMAIN run.files
    \/ \E i \in Events(run.log, { "write_m3u" }) :
         run.log[i].key = path /\ run.log[i].id < p

\* the run wrote or recorded nothing for the playlist
Skipped(p) ==
    /\ ActsOn(p) = {}
    /\ \A i \in 1..Len(CurrentState) : CurrentState[i].id # p

\* the run left the playlist alone, and the file and the entry at the path as
\* they were (unless the path is that of another playlist the run updated)
LeftUntouched(path, p) ==
    /\ Skipped(p)
    /\ (\A i \in 1..Len(run.log) : run.log[i].key = path => run.log[i].op = "playlist")
       => /\ FileOf(files, path) = FileOf(run.files, path)
          /\ EntryOf(CurrentState, path) = EntryOf(run.st, path)

\* the run wrote the file of the playlist at the path and recorded it
Downloaded(path, p) ==
    /\ \E i \in Events(run.log, { "write_m3u" }) :
         run.log[i].key = path /\ run.log[i].id = p
    /\ path \in DOMAIN files
    /\ FilteredIds(files[path]) = ResolvableIds(run.pls[p].tracks)
    /\ EntryOf(CurrentState, path) =
           << [key |-> path, id |-> p, tracks |-> run.pls[p].tracks] >>

NewRemote(p) ==
    \E path \in PlacesOf(p) :
        IF ExistsBefore(path, p) THEN LeftUntouched(path, p) ELSE Downloaded(path, p)

\* C19 as stated: for a remote playlist whose ID no state entry links, a
\* non-pretend download writes a new local file named after it, in the
\* directory named after its folder when a folder lists it and at the top
\* level otherwise, and records a state entry keyed by that path; if a file
\* exists at that path, the file and the state are left untouched.
C19_Original ==
    (Real /\ run.mode = "download") =>
        \A p \in (OrdinaryIds \cap FetchedIds) \ LinkedIds : NewRemote(p)

\* C19 as amended: the same, for a remote playlist of which at least one
\* track has a local path; the file holds the tracks that have one. A remote
\* playlist that is empty or of which no track has a local path is skipped:
\* no file is written and no entry recorded.
C19_NewRemote ==
    (Real /\ run.mode = "download") =>
        \A p \in (OrdinaryIds \cap FetchedIds) \ LinkedIds :
            IF ResolvableIds(run.pls[p].tracks) # << >>
            THEN NewRemote(p)
            ELSE \A path \in PlacesOf(p) : LeftUntouched(path, p)

\* a run downloaded a folder's child into the folder's directory and left
\* alone a same-named file at the top level
C19_Witness ==
    /\ Real /\ run.mode = "download"
    /\ \E p \in (OrdinaryIds \cap FetchedIds) \ LinkedIds :
         /\ FoldersOf(p) # {}
         /\ \E path \in PlacesOf(p) : ~ExistsBefore(path, p) /\ Downloaded(path, p)
         /\ Key("", run.pls[p].name) \in DOMAIN run.files
         /\ files[Key("", run.pls[p].name)] = UserFile

\* a run met a file at the path of a new remote playlist and skipped it
C19_WitnessExists ==
    /\ Real /\ run.mode = "download"
    /\ \E p \in (OrdinaryIds \cap FetchedIds) \ LinkedIds :
         /\ ResolvableIds(run.pls[p].tracks) # << >>
         /\ \E path \in PlacesOf(p) : path \in DOMAIN run.files /\ LeftUntouched(path, p)

\* the filters of the run select the playlist: its name, or the name of a
\* folder that lists it, is one of them, letter case aside
Selected(p) ==
    \/ run.filters = NoFilters
    \/ lower(run.pls[p].name) \in FilterSet(run.filters)
    \/ \E f \in FoldersOf(p) : lower(run.pls[f].name) \in FilterSet(run.filters)

\* C20: a download fetches, writes and records only ordinary playlists, never
\* a system node or a folder node; and it fetches an ordinary playlist if and
\* only if no filter is given, its name equals a filter or it is a child of a
\* folder whose name equals a filter, compared case-insensitively.
C20_OrdinaryOnly ==
    (run.done /\ run.mode = "download") =>
        /\ \A i \in 1..Len(run.log) :
             run.log[i].id \in DOMAIN run.pls => run.log[i].id \in OrdinaryIds
        /\ \A i \in 1..Len(CurrentState) :
             CurrentState[i].id \in OrdinaryIds
        /\ FetchedIds = { p \in OrdinaryIds : Selected(p) }


\* ===================================== the codec and the resolver on their own
\* Track paths given to the serializer: in the library directory or outside
\* it, one whose file name starts with '#' and one whose file name ends with
\* a blank.
CodecPaths ==
    { TrackPath("lib", "t1"), TrackPath("lib", "t2"), TrackPath("out", "t1"),
      TrackPath("lib", "#t4"), TrackPath("lib", "t5 ") }

\* The base directories: the library directory (relative_to = 'library') or
\* the playlist's own directory (relative_to = 'playlist').
BaseDirs == { LibraryDir, "pl" }

\* The merge segments given to the conflict renderer: track 3 has no path.
SegmentIds == { << >>, <<1>>, <<3>>, <<1, 2>> }

Segments ==
    { Clean(ids) : ids \in SegmentIds }
    \cup { Conflict(l, r) : l \in SegmentIds, r \in SegmentIds }

\* the segments of test_mixed_clean_and_conflict, on the tracks of the library
SegmentExamples == { << Clean(<<1>>), Conflict(<<2>>, <<3>>), Clean(<<1>>) >> }

\* The rows the library query may return for two paths: a track ID, '0',
\* an empty or NULL value, a text that is no number, and '00'.
RowValues == { "1", "2", "0", "", Null, "abc", "00" }

RowPaths == { TrackPath("lib", "t1"), TrackPath("lib", "t2") }

QueryRows == { [path |-> p, value |-> v] : p \in RowPaths, v \in RowValues }

\* The mappings a state file may hold, and the files found at the state path:
\* none, one that parses, one that does not.
StateMaps ==
    { << >>,
      << [key |-> Key("", "A"), id |-> 1, tracks |-> <<1, 2>>] >>,
      << [key |-> Key("", "A"), id |-> 1, tracks |-> << >>],
         [key |-> Key("F", "B"), id |-> 2, tracks |-> <<3>>] >> }

StateFileChoices ==
    { NoFile } \cup { StateFile(st) : st \in StateMaps }
    \cup { CorruptFile(st) : st \in StateMaps }

CodecCalls ==
    { [op |-> "write_m3u", track_paths |-> ps, base_dir |-> b] :
        ps \in SeqsUpTo(CodecPaths, MaxPaths), b \in BaseDirs }
    \cup { [op |-> "write_conflicted_m3u", segments |-> ss, base_dir |-> b] :
            ss \in SeqsUpTo(Segments, MaxSegments) \cup SegmentExamples, b \in BaseDirs }
    \cup { [op |-> "build_path_to_trackid", rows |-> rs, paths |-> ps] :
            rs \in SeqsUpTo(QueryRows, MaxRows), ps \in SUBSET RowPaths }
    \cup { [op |-> "load_state", file |-> f] : f \in StateFileChoices }
    \cup { [op |-> "save_state", state |-> st, file |-> f] :
            st \in StateMaps, f \in StateFileChoices }

CodecInit ==
    /\ files = NoFiles
    /\ playlists = NoPlaylists
    /\ nextid = 1
    /\ configured = TRUE
    /\ statefiles = StateFilesOf(Fresh, TRUE)
    /\ run = NoRun
    /\ edits = 0
    /\ runs = 0
    /\ MergeIdle
    /\ cIn \in CodecCalls
    /\ cOut = NoResult
    /\ ProcIdle

Returned(result) ==
    /\ ~cOut.done
    /\ cOut' = result
    /\ UNCHANGED << files, playlists, nextid, statefiles, configured, run, edits, runs,
                    mBase, mLocal, mRemote, mOut, cIn, proc >>

\* _write_m3u, then _parse_m3u of the file with the same base directory
WriteThenParse ==
    /\ cIn.op = "write_m3u"
    /\ Returned([done |-> TRUE,
                 lines |-> write_m3u(cIn.track_paths, cIn.base_dir),
                 parsed |-> parse_m3u(write_m3u(cIn.track_paths, cIn.base_dir),
                                      cIn.base_dir)])

\* _write_conflicted_m3u, then _parse_m3u of the file
WriteConflictedThenParse ==
    /\ cIn.op = "write_conflicted_m3u"
    /\ Returned([done |-> TRUE,
                 lines |-> write_conflicted_m3u(cIn.segments, build_trackid_to_path,
                                                cIn.base_dir),
                 parsed |-> parse_m3u(write_conflicted_m3u(cIn.segments,
                                                           build_trackid_to_path,
                                                           cIn.base_dir),
                                      cIn.base_dir)])

\* _build_path_to_trackid over the rows the query returns
BuildPathToTrackid ==
    /\ cIn.op = "build_path_to_trackid"
    /\ Returned([done |-> TRUE,
                 dict |-> RowsToPathDict(cIn.rows, cIn.paths, << >>)])

\* _load_state of the file at the state path
LoadState ==
    /\ cIn.op = "load_state"
    /\ Returned([done |-> TRUE,
                 state |-> load_state([default |-> cIn.file], "default")])

\* _save_state over the file at the state path, then _load_state
SaveThenLoad ==
    /\ cIn.op = "save_state"
    /\ Returned([done |-> TRUE,
                 file |-> save_state([default |-> cIn.file], "default",
                                     cIn.state).default,
                 state |-> load_state(save_state([default |-> cIn.file], "default",
                                                 cIn.state),
                                      "default")])

CodecNext ==
    \/ WriteThenParse
    \/ WriteConflictedThenParse
    \/ BuildPathToTrackid
    \/ LoadState
    \/ SaveThenLoad

SpecCodec == CodecInit /\ [][CodecNext]_vars

\* the paths of the tracks of the clean segments, in order
RECURSIVE CleanPaths(_)
CleanPaths(segments) ==
    IF segments = << >> THEN << >>
    ELSE (IF Head(segments).tag = "clean"
          THEN resolve_trackids_to_paths(Head(segments).ids, build_trackid_to_path).paths
          ELSE << >>)
         \o CleanPaths(Tail(segments))

\* C21 (conflict markers are inert): re-parsed by the plain parser, a
\* conflict-annotated file yields only the lines of the clean segments; the
\* marker lines and the lines of both alternatives of a conflict block are
\* comments.
C21_MarkersInert ==
    (cOut.done /\ cIn.op = "write_conflicted_m3u") =>
        cOut.parsed = CleanPaths(cIn.segments)

\* C22 (round trip of the playlist codec): for every sequence of normalized
\* track paths (empty, with duplicates, inside or outside the base directory)
\* and every base directory, parsing the file the serializer wrote, with the
\* same base directory, returns exactly that sequence, in order.
C22_RoundTrip ==
    (cOut.done /\ cIn.op = "write_m3u") => cOut.parsed = cIn.track_paths

\* the non-zero numeric track IDs the rows record for a path
RecordedIds(rows, path) ==
    { int(rows[i].value) : i \in { j \in 1..Len(rows) :
                                      /\ rows[j].path = path
                                      /\ rows[j].value \notin { Null, "" }
                                      /\ IsInt(rows[j].value)
                                      /\ int(rows[j].value) # 0 } }

\* C23 (bulk resolution): _build_path_to_trackid(paths) returns a map whose
\* keys are exactly the given paths that the library records with a non-zero
\* numeric track ID, each mapped to such an ID of the path; it has no entry
\* for a path outside the given set and none for a zero, empty or non-numeric
\* ID.
C23_BulkResolution ==
    (cOut.done /\ cIn.op = "build_path_to_trackid") =>
        /\ DOMAIN cOut.dict = { p \in cIn.paths : RecordedIds(cIn.rows, p) # {} }
        /\ \A p \in DOMAIN cOut.dict : cOut.dict[p] \in RecordedIds(cIn.rows, p)

\* C24 (direction flags): a non-pretend run in upload mode creates, modifies
\* or deletes no local playlist file, and a non-pretend run in download mode
\* makes no remote mutation call (createplaylist, settracks, deleteplaylist).
C24_OneSidedWrites ==
    /\ (Real /\ run.mode = "upload") =>
           /\ Events(run.log, LocalWriteOps) = {}
           /\ files = run.files
    /\ (Real /\ run.mode = "download") =>
           /\ Events(run.log, RemoteCallOps) = {}
           /\ playlists = run.pls

C26_WitnessSaved ==
    /\ cOut.done
    /\ cIn.op = "save_state"
    /\ cIn.file \in { CorruptFile(st) : st \in StateMaps }
    /\ cIn.state # << >>
    /\ cOut.state = cIn.state

\* ================================================= the run, step by step
\* One run taken apart where the code reads and writes what it shares with
\* the outside: the state file is located and loaded and the connection
\* fetches the remote library (sync, lines 52-59); the phases work on that
\* library and send their calls to the remote store (lines 62-79); the state
\* is saved (lines 81-83). Another client may edit the remote store between
\* the steps, and a crash or an uncaught error may end the run after any step.

\* The worlds such a run starts in: a new local file, a new remote playlist,
\* and playlist "A" in sync, or with the local file edited since.
NewRemoteWorld ==
    [Fresh EXCEPT !.pls = [p \in {1} |-> [name |-> "A", type |-> "", tracks |-> <<1>>]],
                  !.nextid = 2]

LocalChanged ==
    [Synced(<<1>>) EXCEPT !.files = [k \in { Key("", "A") } |->
                                       << RelLine("t1"), RelLine("t2") >>]]

RunWorlds ==
    { Unrecorded(Key("", "A")), NewRemoteWorld, Synced(<<1>>), LocalChanged }

\* The state files of such a world: at the configured path, at the legacy
\* path, or at the default path with text that does not parse.
RunStateFiles(w) ==
    { [conf |-> c, sf |-> StateFilesOf(w, c)] : c \in BOOLEAN }
    \cup { [conf |-> FALSE,
            sf |-> [configured |-> NoFile, default |-> CorruptFile(w.st),
                    legacy |-> NoFile]] }

RunInit ==
    /\ \E w \in RunWorlds : \E f \in RunStateFiles(w) :
         /\ files = w.files
         /\ playlists = w.pls
         /\ nextid = w.nextid
         /\ configured = f.conf
         /\ statefiles = f.sf
    /\ run = NoRun
    /\ edits = 0
    /\ runs = 0
    /\ MergeIdle
    /\ CodecIdle
    /\ ProcIdle

\* sync, lines 52-59: the state path is determined (the legacy file moved),
\* the state loaded, and the connection fetches the remote library.
Connected(sp, mode, allow_delete, pretend) ==
    /\ statefiles' = sp.sf
    /\ proc' = [pc |-> "connected", mode |-> mode, allow_delete |-> allow_delete,
                pretend |-> pretend, sf0 |-> statefiles, sp |-> sp,
                lib |-> playlists, store |-> playlists,
                w |-> LoadedWorld(files, playlists, nextid, sp)]

Connect(mode, allow_delete, pretend) ==
    /\ proc.pc \in { "idle", "saved", "aborted" }
    /\ runs < MaxRuns
    /\ nextid + Cardinality(Unlinked) <= MaxPid + 1
    /\ Connected(get_state_path(statefiles, configured), mode, allow_delete, pretend)
    /\ runs' = runs + 1
    /\ UNCHANGED << files, playlists, nextid, configured, run, edits,
                    mBase, mLocal, mRemote, mOut, cIn, cOut >>

\* Another client changes the track list of a remote playlist while the run
\* is between its steps.
OtherClientEdit(pid, tracks) ==
    /\ proc.pc \in { "connected", "processed" }
    /\ edits < MaxEdits
    /\ pid \in DOMAIN playlists
    /\ playlists[pid].tracks # tracks
    /\ playlists' = [playlists EXCEPT ![pid].tracks = tracks]
    /\ edits' = edits + 1
    /\ UNCHANGED << files, nextid, statefiles, configured, run, runs,
                    mBase, mLocal, mRemote, mOut, cIn, cOut, proc >>

\* the playlists the run's successful calls set, and those they deleted
SetIds(log) == { log[i].id : i \in Events(log, { "createplaylist", "settracks" }) }

DeletedIds(log) == { log[i].id : i \in Events(log, { "deleteplaylist" }) }

\* The remote store after the calls of the run reached it: a playlist the
\* run created, set or deleted is as the run left it, every other one as the
\* store has it.
StoreAfter(store, w) ==
    [p \in { q \in DOMAIN store \cup DOMAIN w.pls :
               IF q \in SetIds(w.log) \cup DeletedIds(w.log)
               THEN q \in DOMAIN w.pls ELSE q \in DOMAIN store } |->
       IF p \in SetIds(w.log) THEN w.pls[p] ELSE store[p]]

\* sync, lines 62-79: both phases, on the library the connection fetched
Phases(w0, mode, allow_delete, pretend) ==
    SyncDownload(SyncUpload(w0, mode, allow_delete, pretend, {}, NoFilters),
                 mode, allow_delete, pretend, {}, NoFilters)

Processed(w) ==
    /\ files' = w.files
    /\ playlists' = StoreAfter(playlists, w)
    /\ nextid' = w.nextid
    /\ proc' = [proc EXCEPT !.pc = "processed", !.store = playlists, !.w = w]

Process ==
    /\ proc.pc = "connected"
    /\ Processed(Phases([proc.w EXCEPT !.files = files], proc.mode,
                        proc.allow_delete, proc.pretend))
    /\ UNCHANGED << statefiles, configured, run, edits, runs,
                    mBase, mLocal, mRemote, mOut, cIn, cOut >>

\* sync, lines 81-83: the state is saved unless the run pretends
Save ==
    /\ proc.pc = "processed"
    /\ statefiles' = SyncSave(proc.w, [proc.sp EXCEPT !.sf = statefiles],
                              proc.pretend).sf
    /\ proc' = [proc EXCEPT !.pc = "saved",
                            !.w = SyncSave(proc.w, proc.sp, proc.pretend).w]
    /\ UNCHANGED << files, playlists, nextid, configured, run, edits, runs,
                    mBase, mLocal, mRemote, mOut, cIn, cOut >>

\* The process dies, or an error no handler catches ends the run.
Abort ==
    /\ proc.pc \in { "connected", "processed" }
    /\ proc' = [proc EXCEPT !.pc = "aborted"]
    /\ UNCHANGED << files, playlists, nextid, statefiles, configured, run, edits,
                    runs, mBase, mLocal, mRemote, mOut, cIn, cOut >>

RunNext ==
    \/ \E mode \in Modes : \E allow_delete \in BOOLEAN : \E pretend \in BOOLEAN :
         Connect(mode, allow_delete, pretend)
    \/ \E pid \in DOMAIN playlists : \E tracks \in RemoteLists(playlists[pid].name) :
         OtherClientEdit(pid, tracks)
    \/ Process
    \/ Save
    \/ Abort

SpecRun == RunInit /\ [][RunNext]_vars

\* The state a run starting now would load from the given state files.
OnDisk(sf) ==
    IF configured THEN load_file(sf.configured)
    ELSE IF sf.default.exists THEN load_file(sf.default)
    ELSE load_file(sf.legacy)

\* C25 (state file written last): from the moment a run has loaded the state
\* until it has gone through both phases, and when it is ended by a crash or
\* an uncaught error at any of these points, nothing has been saved and the
\* state on disk is the state that was there before the run; the run that
\* completes saves at most once, as its last step, and the state files change
\* only by that save.
C25_StateWrittenLast ==
    /\ proc.pc \in { "connected", "processed", "aborted" } =>
         /\ Events(proc.w.log, { "save_state" }) = {}
         /\ OnDisk(statefiles) = OnDisk(proc.sf0)
         /\ statefiles = proc.sp.sf
    /\ proc.pc = "saved" =>
         /\ Events(proc.w.log, { "save_state" }) \subseteq { Len(proc.w.log) }
         /\ statefiles # proc.sp.sf => Events(proc.w.log, { "save_state" }) # {}

\* a run that pushed to the remote store and rewrote nothing on disk is
\* ended before the save: the state of the previous run, moved from the
\* legacy path, is still what the disk holds
C25_Witness ==
    /\ proc.pc = "aborted"
    /\ Events(proc.w.log, { "settracks" }) # {}
    /\ proc.sp.moved
    /\ OnDisk(statefiles) # << >>
    /\ OnDisk(statefiles) # proc.w.st

C25_WitnessSaved ==
    /\ proc.pc = "saved"
    /\ Events(proc.w.log, { "save_state" }) = { Len(proc.w.log) }
    /\ Len(proc.w.log) > 1
    /\ OnDisk(statefiles) # OnDisk(proc.sf0)

\* C27 (no lost remote update): the first settracks call a run makes for a
\* playlist replaces, in the remote store, the track list the run read for
\* that playlist and compared against the ancestor, also when another client
\* edits the store while the run is under way.
C27_NoLostUpdate ==
    proc.pc \in { "processed", "saved", "aborted" } =>
        \A i \in Events(proc.w.log, { "settracks" }) :
            (/\ proc.w.log[i].id \in DOMAIN proc.lib
             /\ \A j \in Events(proc.w.log, { "settracks" }) :
                  proc.w.log[j].id = proc.w.log[i].id => i <= j)
            => proc.store[proc.w.log[i].id].tracks = proc.lib[proc.w.log[i].id].tracks

\* without an edit of another client during the run, the calls of the run
\* leave the store as the run computed it
D27_Alone ==
    (proc.pc \in { "processed", "saved" } /\ edits = 0) =>
        /\ C27_NoLostUpdate
        /\ proc.pc = "processed" => playlists = proc.w.pls

\* the run wrote no merge result for the key
NotMerged(key) ==
    \A i \in FileWrites(key) :
        run.log[i].op \notin { "write_merged_m3u", "write_conflicted_m3u" }

\* the run replaced the file of a linked key by the remote sequence
ReplacedByRemote(key) ==
    /\ key \in DOMAIN run.files
    /\ HasKey(run.st, key)
    /\ NotMerged(key)
    /\ \E i \in FileWrites(key) : run.log[i].op = "write_m3u"

\* the run pushed the local sequence of a linked key to the remote store
PushedOverRemote(key) ==
    /\ key \in DOMAIN run.files
    /\ HasKey(run.st, key)
    /\ GetEntry(run.st, key).id \in DOMAIN run.pls
    /\ StrictIds(run.files[key]).ok
    /\ \E i \in PushCalls(GetEntry(run.st, key).id) :
         run.log[i].key = key /\ run.log[i].tracks = StrictIds(run.files[key]).ids

\* both sides differ from the ancestor and from each other
MergeDecides(key) ==
    LET e == GetEntry(run.st, key)
        l == StrictIds(run.files[key]).ids
        r == run.pls[e.id].tracks
    IN  l # e.tracks /\ r # e.tracks /\ l # r

\* C28 (no overwrite without merge): a non-pretend run replaces the content of
\* a linked playlist's local file by the remote sequence only if all track
\* lines of the file resolve and are the ancestor, and pushes the local
\* sequence over the remote one only if the remote sequence is the ancestor
\* or both sides changed, where the merge decides what is pushed.
C28_NoOverwrite ==
    Real => \A key \in DOMAIN run.files :
        /\ ReplacedByRemote(key) => LocalIsAncestor(key)
        /\ PushedOverRemote(key) =>
             \/ run.pls[GetEntry(run.st, key).id].tracks = GetEntry(run.st, key).tracks
             \/ MergeDecides(key)

\* the second half of C28 alone
D28_Push ==
    Real => \A key \in DOMAIN run.files :
        PushedOverRemote(key) =>
            \/ run.pls[GetEntry(run.st, key).id].tracks = GetEntry(run.st, key).tracks
            \/ MergeDecides(key)

\* the first half of C28 for files all of whose track lines resolve
D28_Resolving ==
    Real => \A key \in DOMAIN run.files :
        (ReplacedByRemote(key) /\ AllResolve(run.files[key])) => LocalIsAncestor(key)

\* C29 (unresolved entries are reported): whenever a non-pretend run writes a
\* downloaded or merged sequence to a local file and some ID of the sequence
\* has no local path, the run reports unresolved tracks for that playlist; so
\* no file that lacks tracks of the sequence recorded for it is written
\* without a report.
C29_UnresolvedReported ==
    Real => \A i \in Events(run.log, { "write_m3u", "write_merged_m3u" }) :
        ResolvableIds(run.log[i].tracks) # run.log[i].tracks
        => \E j \in 1..Len(run.warnings) : run.warnings[j].id = run.log[i].id

\* C29 for the downloads that take the remote sequence as it is
D29_Downloads ==
    Real => \A i \in Events(run.log, { "write_m3u" }) :
        ResolvableIds(run.log[i].tracks) # run.log[i].tracks
        => \E j \in 1..Len(run.warnings) :
             /\ run.warnings[j].id = run.log[i].id
             /\ run.warnings[j].unresolved =
                  Len(run.log[i].tracks) - Len(ResolvableIds(run.log[i].tracks))

\* the texts that begin with '#': the markers and the placeholder of track 3
HashTexts ==
    { "#" \o t : t \in { "<<<<<<< local", "=======", ">>>>>>> remote",
                          " unresolved track 3" } }

\* the lines of a list of track IDs: the path of a track that has one, a
\* placeholder for one that has none
IdLines(ids, base_dir) ==
    [i \in 1..Len(ids) |->
        IF ids[i] \in DOMAIN build_trackid_to_path
        THEN PathLine(build_trackid_to_path[ids[i]], base_dir)
        ELSE CommentLine("# unresolved track " \o ToString(ids[i]))]

\* the lines of one segment
SegmentLines(seg, base_dir) ==
    IF seg.tag = "clean" THEN IdLines(seg.ids, base_dir)
    ELSE << CommentLine("#<<<<<<< local") >> \o IdLines(seg.ids, base_dir)
         \o << CommentLine("#=======") >> \o IdLines(seg.remote, base_dir)
         \o << CommentLine("#>>>>>>> remote") >>

\* the number of lines the first n segments take
RECURSIVE LinesBefore(_, _, _)
LinesBefore(segments, n, base_dir) ==
    IF n = 0 THEN 0
    ELSE LinesBefore(segments, n - 1, base_dir) + Len(SegmentLines(segments[n], base_dir))

\* C30 (conflict file): the conflict-annotated file holds the lines of the
\* segments in order, a clean segment as its track paths and a conflict
\* segment as '#<<<<<<< local', the local alternative, '#=======', the remote
\* alternative, '#>>>>>>> remote'; a track ID without a path takes one
\* placeholder line and the render still yields every line; all lines that
\* are not track paths begin with '#'.
C30_ConflictFile ==
    (cOut.done /\ cIn.op = "write_conflicted_m3u") =>
        /\ Len(cOut.lines) = LinesBefore(cIn.segments, Len(cIn.segments), cIn.base_dir)
        /\ \A n \in 1..Len(cIn.segments) :
             SubSeq(cOut.lines,
                    LinesBefore(cIn.segments, n - 1, cIn.base_dir) + 1,
                    LinesBefore(cIn.segments, n, cIn.base_dir))
             = SegmentLines(cIn.segments[n], cIn.base_dir)
        /\ \A i \in 1..Len(cOut.lines) :
             \/ cOut.lines[i].kind \in { "rel", "abs" }
                /\ TrackPath(IF cOut.lines[i].kind = "rel" THEN cIn.base_dir
                             ELSE cOut.lines[i].dir,
                             cOut.lines[i].name) \in TrackFiles
             \/ cOut.lines[i].kind = "comment" /\ cOut.lines[i].name \in HashTexts
        /\ (cIn.segments \in SegmentExamples /\ cIn.base_dir = LibraryDir) =>
             cOut.lines = << RelLine("t1"), CommentLine("#<<<<<<< local"), RelLine("t2"),
                             CommentLine("#======="),
                             CommentLine("# unresolved track 3"),
                             CommentLine("#>>>>>>> remote"), RelLine("t1") >>

C30_Witness ==
    /\ cOut.done
    /\ cIn.op = "write_conflicted_m3u"
    /\ cIn.segments = << Conflict(<<1, 2>>, <<3>>), Clean(<<3>>) >>
    /\ cIn.base_dir = "pl"
    /\ Len(cOut.lines) = 7
    /\ cOut.lines[7] = CommentLine("# unresolved track 3")

C30_WitnessExample ==
    /\ cOut.done
    /\ cIn.op = "write_conflicted_m3u"
    /\ cIn.segments \in SegmentExamples
    /\ cIn.base_dir = LibraryDir

\* a state entry of the run whose local file is missing and whose remote
\* track list is the entry's
LocalGone(e) ==
    /\ e.key \notin DOMAIN run.files
    /\ e.id \in DOMAIN run.pls
    /\ run.pls[e.id].tracks = e.tracks

\* a state entry of the run whose remote playlist is gone and whose local
\* file is unchanged
RemoteGone(e) ==
    /\ e.id \notin DOMAIN run.pls
    /\ e.key \in DOMAIN run.files
    /\ LocalIsAncestor(e.key)

\* the run deleted the remote playlist of the entry and the entry
DeletedRemote(e) ==
    /\ \E i \in Events(run.log, { "deleteplaylist" }) : run.log[i].id = e.id
    /\ e.id \notin DOMAIN playlists
    /\ \A j \in 1..Len(CurrentState) :
         ~(CurrentState[j].key = e.key /\ CurrentState[j].id = e.id)

\* the run deleted the local file of the entry and the entry
DeletedLocal(e) ==
    /\ \E i \in Events(run.log, { "unlink" }) : run.log[i].key = e.key
    /\ e.key \notin DOMAIN files
    /\ ~HasKey(CurrentState, e.key)

\* the run deleted nothing
NothingDeleted ==
    /\ Events(run.log, { "deleteplaylist", "deleteplaylist_failed", "unlink" }) = {}
    /\ DOMAIN run.pls \subseteq DOMAIN playlists
    /\ DOMAIN run.files \subseteq DOMAIN files
    /\ \A i \in 1..Len(run.st) : HasKey(CurrentState, run.st[i].key)

C31_WitnessLocal ==
    /\ Real
    /\ run.allow_delete
    /\ \E i \in 1..Len(run.st) : RemoteGone(run.st[i]) /\ DeletedLocal(run.st[i])

C31_WitnessKept ==
    /\ Real
    /\ ~run.allow_delete
    /\ run.mode = "sync"
    /\ \E i \in 1..Len(run.st) : LocalGone(run.st[i])

\* what a pretend run reports it would do
WouldOps ==
    { "would_create", "would_upload", "would_merge", "would_conflict",
      "would_download", "would_update_local", "would_delete_remote",
      "would_delete_local" }

\* the actions that carry out a report
Does(would) ==
    CASE would = "would_create" -> { "createplaylist" }
      [] would = "would_upload" -> { "settracks" }
      [] would = "would_merge" -> { "settracks", "write_merged_m3u" }
      [] would = "would_conflict" -> { "write_conflicted_m3u" }
      [] would = "would_download" -> { "write_m3u" }
      [] would = "would_update_local" -> { "write_m3u" }
      [] would = "would_delete_remote" -> { "deleteplaylist" }
      [] would = "would_delete_local" -> { "unlink" }

\* the writes of a run: to local files and to the remote store
WriteOps == LocalWriteOps \cup { "createplaylist", "settracks", "deleteplaylist" }

\* the reports that announce a write
Announces(op) ==
    IF op = "settracks" THEN { "would_create", "would_upload", "would_merge" }
    ELSE { w \in WouldOps : op \in Does(w) }

\* every report of the pretend log is carried out in the other log
AllPerformed(plog, rlog) ==
    \A i \in Events(plog, WouldOps) :
        \E j \in 1..Len(rlog) :
            rlog[j].op \in Does(plog[i].op) /\ rlog[j].key = plog[i].key

\* every write of the log is announced in the pretend log
AllReported(plog, rlog) ==
    \A j \in Events(rlog, WriteOps) :
        \E i \in 1..Len(plog) :
            plog[i].op \in Announces(rlog[j].op) /\ plog[i].key = rlog[j].key

\* the log of the non-pretend run from where the last run started, with the
\* same arguments and no failing call
RealLog ==
    sync(run.files, run.pls, run.nextid, run.sf, configured, run.mode,
         run.allow_delete, FALSE, {}, run.filters).w.log

\* C32 (pretend mode predicts): a pretend run reports exactly what the
\* non-pretend run from the same local files, remote content and state does:
\* every reported action is performed by it, and every write it performs is
\* reported.
C32_PretendFaithful ==
    (run.done /\ run.pretend) =>
        /\ AllPerformed(run.log, RealLog)
        /\ AllReported(run.log, RealLog)

\* the first half of C32 alone
D32_Performed == (run.done /\ run.pretend) => AllPerformed(run.log, RealLog)

\* the second half of C32 alone
D32_Reported == (run.done /\ run.pretend) => AllReported(run.log, RealLog)

\* C33 (well-formed merge result): has_conflicts is true exactly when the
\* returned list holds a conflict segment, so that without conflicts the
\* concatenation of the segments is the whole merged sequence; and no two
\* adjacent segments of the list are both clean.
C33_WellFormed ==
    mOut.done =>
        /\ mOut.has_conflicts <=>
             \E i \in 1..Len(mOut.segments) : mOut.segments[i].tag = "conflict"
        /\ ~mOut.has_conflicts =>
             \A i \in 1..Len(mOut.segments) : mOut.segments[i].remote = << >>
        /\ \A i \in 1..(Len(mOut.segments) - 1) :
             ~(mOut.segments[i].tag = "clean" /\ mOut.segments[i + 1].tag = "clean")

\* a merge that joined the clean segments of a gap and of the sync point
\* after it, next to a conflict
C33_Witness ==
    /\ mOut.done
    /\ mOut.has_conflicts
    /\ Len(mOut.segments) >= 2
    /\ \E i \in 1..Len(mOut.segments) :
         mOut.segments[i].tag = "clean" /\ Len(mOut.segments[i].ids) >= 2

\* the remote mutation calls of the run for a key
RemoteCallsFor(key) == { i \in Events(run.log, RemoteCallOps) : run.log[i].key = key }

\* C34 (an unresolved conflict is not pushed): a non-pretend run that directly
\* follows a run which wrote a conflict-annotated file for a playlist, with
\* nothing edited in between, makes no remote mutation call for that playlist.
C34_ConflictNotPushed ==
    (Real /\ run.prev.ok) =>
        \A key \in run.prev.conflicted : RemoteCallsFor(key) = {}

\* C34 for the runs without an upload phase
D34_Download ==
    (Real /\ run.prev.ok /\ run.mode = "download") =>
        \A key \in run.prev.conflicted : RemoteCallsFor(key) = {}

\* every track line of every local file and every track of every remote
\* playlist the run started from resolves
EverythingResolves ==
    /\ \A key \in DOMAIN run.files : AllResolve(run.files[key])
    /\ \A p \in DOMAIN run.pls :
         run.pls[p].type = "" => ResolvableIds(run.pls[p].tracks) = run.pls[p].tracks

\* the run is a bidirectional one in which no call failed and no merge
\* reported a conflict
CleanSyncRun ==
    /\ Real
    /\ run.mode = "sync"
    /\ Events(run.log, FailedOps) = {}
    /\ Events(run.log, { "write_conflicted_m3u" }) = {}

\* local file, remote playlist and state entry agree
Agrees(e) ==
    /\ FilteredIds(files[e.key]) = e.tracks
    /\ Len(parse_m3u(files[e.key], LibraryDir)) = Len(e.tracks)
    /\ playlists[e.id].tracks = e.tracks

\* C35 (a bidirectional run reaches agreement): after a non-pretend run in
\* mode sync in which no remote call failed, no merge reported a conflict and
\* every track on both sides resolves, every playlist the state links (an
\* entry with its local file and its remote playlist) has local sequence =
\* remote sequence = the entry's tracks.
C35_Agreement ==
    (CleanSyncRun /\ EverythingResolves) =>
        \A i \in 1..Len(CurrentState) :
            (/\ CurrentState[i].key \in DOMAIN files
             /\ CurrentState[i].id \in DOMAIN playlists)
            => Agrees(CurrentState[i])

\* C35 when no local file and no remote playlist is empty
D35_NonEmpty ==
    (/\ CleanSyncRun
     /\ EverythingResolves
     /\ \A key \in DOMAIN run.files : parse_m3u(run.files[key], LibraryDir) # << >>
     /\ \A p \in DOMAIN run.pls : run.pls[p].tracks # << >>) =>
        \A i \in 1..Len(CurrentState) :
            (/\ CurrentState[i].key \in DOMAIN files
             /\ CurrentState[i].id \in DOMAIN playlists)
            => Agrees(CurrentState[i])

\* C36 (one remote playlist per local file): every remote playlist a
\* non-pretend run created for a local file is recorded for that file in the
\* state the run leaves, also when a later call of the run fails; so the next
\* run finds the file linked and does not create a playlist for it again.
C36_CreatedIsRecorded ==
    Real => \A i \in Events(run.log, { "createplaylist" }) :
        \E j \in 1..Len(CurrentState) :
            /\ CurrentState[j].key = run.log[i].key
            /\ CurrentState[j].id = run.log[i].id

\* C36 for the runs in which no remote call fails
D36_NoFailure ==
    (Real /\ Events(run.log, FailedOps) = {}) =>
        \A i \in Events(run.log, { "createplaylist" }) :
            \E j \in 1..Len(CurrentState) :
                /\ CurrentState[j].key = run.log[i].key
                /\ CurrentState[j].id = run.log[i].id

MergePushFailed(key) ==
    /\ HasKey(run.st, key)
    /\ GetEntry(run.st, key).id \in DOMAIN run.pls
    /\ StrictIds(run.files[key]).ok
    /\ MergeDecides(key)
    /\ ~merge_trackids(GetEntry(run.st, key).tracks, StrictIds(run.files[key]).ids,
                       run.pls[GetEntry(run.st, key).id].tracks).has_conflicts
    /\ \E i \in Events(run.log, { "settracks_failed" }) : run.log[i].key = key
    /\ \A i \in Events(run.log, { "settracks" }) : run.log[i].key # key

\* C38 (failed merge push changes nothing): when settracks raises while a
\* non-pretend run pushes the result of a conflict-free merge, the playlist's
\* local file and its state entry are after the run what they were before it.
C38_FailedPushChangesNothing ==
    Real => \A key \in DOMAIN run.files :
        MergePushFailed(key) =>
            /\ FileOf(files, key) = FileOf(run.files, key)
            /\ EntryOf(CurrentState, key) = EntryOf(run.st, key)

\* C38 for upload-only runs
D38_Upload ==
    (Real /\ run.mode = "upload") => \A key \in DOMAIN run.files :
        MergePushFailed(key) =>
            /\ FileOf(files, key) = FileOf(run.files, key)
            /\ EntryOf(CurrentState, key) = EntryOf(run.st, key)

\* the state entry half of C38, in every mode
D38_State ==
    Real => \A key \in DOMAIN run.files :
        MergePushFailed(key) => EntryOf(CurrentState, key) = EntryOf(run.st, key)

\* ============================================ the upload command's tag sync
\* IBUploadCommand.func for library items that are uploaded and up to date
\* (each has a track ID and needs no upload, and --force is not given), so
\* that upload() goes straight to _sync_tags. The session s of a command holds
\* the library items, the remote tag table ib.tags (tag ID -> name; self.tags
\* is the same table keyed on the name), the tags of each remote track, the
\* remote tag calls made so far, and whether an exception left the command.
\* An item's usertags string 'x|y' is the sequence of its names, and its
\* ib_tagids string the set of its IDs. Tag IDs are strings.
NoneId == "None"

TagIds == { "1", "2", "3", "4" }

\* str(self.ib.createtag(tagname)): the ID of the n-th tag of the store
IdStr(n) == << "1", "2", "3", "4" >>[n]

NameOrder == << "x", "y", "z" >>

\* sorted(names), and '|'.join of it
sorted(names) == LET listed(n) == n \in names IN SelectSeq(NameOrder, listed)

\* whether the usertags string lists the name
Tagged(usertags, name) == \E i \in 1..Len(usertags) : usertags[i] = name

TagCall(s, op, tag, tid, ok) ==
    [s EXCEPT !.calls = @ \cup { [op |-> op, tag |-> tag, tid |-> tid, ok |-> ok] }]

\* _tagid: the ID of the remote tag of that name, which it creates when there
\* is none; None when createtag raised
tagid(s, tagname, tid, failCreate) ==
    IF \E id \in DOMAIN s.ibtags : s.ibtags[id] = tagname
    THEN [s |-> s, id |-> CHOOSE id \in DOMAIN s.ibtags : s.ibtags[id] = tagname]
    ELSE IF tagname \in failCreate
    THEN [s |-> TagCall(s, "createtag", tagname, tid, FALSE), id |-> NoneId]
    ELSE [s |-> [TagCall(s, "createtag", tagname, tid, TRUE) EXCEPT
                    !.ibtags = [i \in DOMAIN @ \cup { IdStr(s.nexttag) } |->
                                  IF i = IdStr(s.nexttag) THEN tagname ELSE @[i]],
                    !.nexttag = @ + 1],
          id |-> IdStr(s.nexttag)]

\* _local_tagids: _tagid of every name of the item's usertags, in order
RECURSIVE local_tagids(_, _, _, _)
local_tagids(s, usertags, tid, failCreate) ==
    IF usertags = << >> THEN [s |-> s, ids |-> {}]
    ELSE LET first == tagid(s, Head(usertags), tid, failCreate)
             rest == local_tagids(first.s, Tail(usertags), tid, failCreate)
         IN  [s |-> rest.s, ids |-> { first.id } \cup rest.ids]

\* assert_element_type(items, str): whether the assertion passes
assert_element_type(items) == NoneId \notin items

\* _update_tags: joining the IDs, or the names _tagname gives for them, raises
\* TypeError when one of them is None, before the item is stored
update_tags(s, i, tagids) ==
    IF \E t \in tagids : t \notin DOMAIN s.ibtags
    THEN [s EXCEPT !.raised = TRUE]
    ELSE [s EXCEPT !.items[i].ib_tagids = tagids,
                   !.items[i].usertags = sorted({ s.ibtags[t] : t \in tagids })]

\* _sync_tags, lines 158-196: the four differences, the remote calls for the
\* local ones (those whose tag is in failTag raise), and the item's update
apply_tags(s, i, tid, local, remote, lastsync, failTag) ==
    update_tags(
        [s EXCEPT
            !.tracktags[tid] = ((remote \cup ((local \ lastsync) \ failTag))
                                  \ ((lastsync \ local) \ failTag)) \ { NoneId },
            !.calls = @ \cup { [op |-> "tagtracks", tag |-> t, tid |-> tid,
                                ok |-> t \notin failTag] : t \in local \ lastsync }
                        \cup { [op |-> "untag", tag |-> t, tid |-> tid,
                                ok |-> t \notin failTag] : t \in lastsync \ local }],
        i,
        (((lastsync \cup ((local \ lastsync) \ failTag))
             \ ((lastsync \ local) \ failTag))
            \cup (remote \ lastsync)) \ (lastsync \ remote))

\* _sync_tags, lines 150-156: the three ID sets and the assertions on them,
\* which python -O leaves out
asserted_tags(loc, i, failTag) ==
    IF ~loc.s.optimize /\ ~assert_element_type(loc.ids)
    THEN [loc.s EXCEPT !.raised = TRUE]
    ELSE apply_tags(loc.s, i, loc.s.items[i].tid, loc.ids,
                    loc.s.tracktags[loc.s.items[i].tid],
                    loc.s.items[i].ib_tagids, failTag)

sync_tags(s, i, failCreate, failTag) ==
    asserted_tags(local_tagids(s, s.items[i].usertags, s.items[i].tid, failCreate),
                  i, failTag)

\* func, lines 63-67: an exception that leaves upload() ends the loop
upload(s, i, failCreate, failTag) ==
    IF sync_tags(s, i, failCreate, failTag).raised
    THEN sync_tags(s, i, failCreate, failTag)
    ELSE [sync_tags(s, i, failCreate, failTag) EXCEPT !.pos = i + 1]

\* The libraries a command starts with: the first item in every combination
\* of local, last synced and remote tags "x" and "y", or with the tag "z"
\* the store does not have yet; a second item that waits for its turn.
FirstItems ==
    { [tid |-> 1, usertags |-> u, ib_tagids |-> l] :
        u \in { << >>, <<"x">>, <<"x", "y">>, <<"z">>, <<"x", "z">> },
        l \in SUBSET { "1", "2" } }

SecondItems ==
    { [tid |-> 2, usertags |-> u, ib_tagids |-> {}] : u \in { <<"y">>, <<"z">> } }

Sessions ==
    { [pc |-> "upload", items |-> << a, b >>, before |-> << a, b >>, pos |-> 1,
       ibtags |-> [t \in { "1", "2" } |-> IF t = "1" THEN "x" ELSE "y"],
       nexttag |-> 3,
       tracktags |-> [t \in { 1, 2 } |-> IF t = 1 THEN r ELSE {}],
       calls |-> {}, raised |-> FALSE, optimize |-> o] :
        a \in FirstItems, b \in SecondItems, r \in SUBSET { "1", "2" },
        o \in BOOLEAN }

TagsInit ==
    /\ files = NoFiles
    /\ playlists = NoPlaylists
    /\ nextid = 1
    /\ configured = TRUE
    /\ statefiles = StateFilesOf(Fresh, TRUE)
    /\ run = NoRun
    /\ edits = 0
    /\ runs = 0
    /\ MergeIdle
    /\ CodecIdle
    /\ proc \in Sessions

\* The command uploads its next item; the remote tag calls for the names in
\* failCreate and the tag IDs in failTag raise.
UploadItem(failCreate, failTag) ==
    /\ proc.pc = "upload"
    /\ ~proc.raised
    /\ proc.pos <= Len(proc.items)
    /\ proc' = upload(proc, proc.pos, failCreate, failTag)
    /\ UNCHANGED << files, playlists, nextid, statefiles, configured, run, edits, runs, mBase, mLocal, mRemote, mOut, cIn, cOut >>

TagsNext ==
    \E failCreate \in SUBSET { "z" } : \E failTag \in SUBSET (TagIds \cup { NoneId }) :
        UploadItem(failCreate, failTag)

SpecTags == TagsInit /\ [][TagsNext]_vars

\* the tag sync of the item of track tid has completed
TagsSynced(tid) == proc.pos > tid

\* C39 (a failed tag call leaves the local tags alone): after the tag sync of
\* an item, a tag the user added to it whose remote tagging call raised is
\* still among the item's user tags, and a tag the user removed from it whose
\* remote untagging call raised is not among them.
C39_FailedCallKeepsLocalTags ==
    \A c \in proc.calls :
        (~c.ok /\ TagsSynced(c.tid) /\ c.tag \in DOMAIN proc.ibtags) =>
            /\ c.op = "tagtracks" => Tagged(proc.items[c.tid].usertags, proc.ibtags[c.tag])
            /\ c.op = "untag" => ~Tagged(proc.items[c.tid].usertags, proc.ibtags[c.tag])

\* C39 for the calls that did not raise: an added tag stays, a removed one
\* stays away
D39_Succeeded ==
    \A c \in proc.calls :
        (c.ok /\ TagsSynced(c.tid) /\ c.op # "createtag") =>
            /\ c.op = "tagtracks" => Tagged(proc.items[c.tid].usertags, proc.ibtags[c.tag])
            /\ c.op = "untag" => ~Tagged(proc.items[c.tid].usertags, proc.ibtags[c.tag])

\* C40 (tag failures do not stop the command): a remote tag call that raises
\* (createtag, tagtracks, untagging) is caught where it is made, so no
\* exception leaves the command and every item gets its turn.
C40_RunContinues ==
    (\E c \in proc.calls : ~c.ok) => ~proc.raised

\* C40 for the tagging and untagging calls
D40_TagTracks ==
    (\A c \in proc.calls : ~c.ok => c.op # "createtag") => ~proc.raised

====
